---- MODULE Spec2Model ----
(***************************************************************************)
(* Contact-map subsystem of Metagenomic-DeepFRI: the contact-map builders  *)
(* (dense and sparse) and the alignment remappers, in each of the variants *)
(* the repository carries.  A call is one action: it draws its arguments   *)
(* from bounded sets, runs the whole function and leaves arguments and     *)
(* result in the state; Return brings the caller back to idle.             *)
(*                                                                         *)
(* Indices are 0-based as in the code; TLA+ sequences are 1-based, so      *)
(* element i of a buffer s is s[i + 1].                                    *)
(***************************************************************************)
EXTENDS Integers, Sequences, FiniteSets, TLC

\* ---------------------------------------------------------------- bounds
MaxAlignLen == 2
MaxContacts == 1
MaxGenerated == 2
MaxAtoms == 3
MaxResidues == 3

\* ------------------------------------------------------------ input sets
GAP == "-"
NUL == "NUL"
Residue == "A"
Chars == {Residue, GAP}

Alignments == UNION {[1..n -> Chars] : n \in 0..MaxAlignLen}

\* Equal-length pairs, as the callers pass them, and the other pairs.
EqualLengthPairs == {qt \in Alignments \X Alignments : Len(qt[1]) = Len(qt[2])}
UnequalLengthPairs == (Alignments \X Alignments) \ EqualLengthPairs

\* Rows of a sparse target map: any two ints, from -1 to one past the largest
\* target index an alignment of MaxAlignLen columns can have.
ContactRows == (-1..MaxAlignLen) \X (-1..MaxAlignLen)
SparseMaps == UNION {[1..n -> ContactRows] : n \in 0..MaxContacts}

\* ----------------------------------------------------------- result type
\* What a reader of the structure file hands back.
\* group_indexes_high holds the upper 32 bits of the boundaries of a reader
\* whose buffer has 8-byte elements; it is empty for 4-byte boundaries.
NoStructure ==
  [chain_length |-> 0, group_indexes |-> <<>>, group_indexes_high |-> <<>>,
   atoms_positions |-> <<>>]

NoResult ==
  [size |-> 0, cells |-> {}, writes |-> <<>>, sparse |-> <<>>,
   target_to_query |-> <<>>, cols |-> 0, error |-> "none",
   returned |-> "none", structure |-> NoStructure, uninitialised |-> FALSE,
   null_dereferenced |-> FALSE, onehot |-> <<>>, steps |-> <<>>,
   bit_call |-> [i |-> 0, value |-> FALSE, before |-> <<>>],
   translated |-> <<>>, map_reads |-> <<>>]

\* ------------------------------------------------------------------------
\* src/mDeepFRI/contact_map_utils.pyx : align_contact_map
\* ------------------------------------------------------------------------

\* q_ptr[i] / t_ptr[i]: a char* into a bytes object.  Inside the string the
\* byte itself, at index len the terminating NUL, past it whatever the
\* memory holds (junk).
ReadChar(s, i, junk) ==
  IF i < Len(s) THEN s[i + 1]
  ELSE IF i = Len(s) THEN NUL
  ELSE junk

\* for j in range(1, generated_contacts + 1): push (q + j, q) then (q - j, q)
RECURSIVE acm_GeneratedContacts(_, _, _)
acm_GeneratedContacts(query_idx, generated_contacts, j) ==
  IF j >= generated_contacts + 1 THEN <<>>
  ELSE << <<query_idx + j, query_idx>>, <<query_idx - j, query_idx>> >>
       \o acm_GeneratedContacts(query_idx, generated_contacts, j + 1)

\* Variant of the first pass that does not advance query_idx on an insertion
\* column (query residue against a target gap).
acm_Column_InsertionNotCounted(s, qc, tc, generated_contacts) ==
  IF qc = GAP
  THEN [s EXCEPT !.target_to_query_map = Append(@, -1),
                 !.target_idx = @ + 1]
  ELSE IF tc = GAP
  THEN [s EXCEPT !.sparse_query_contacts =
                     @ \o acm_GeneratedContacts(s.query_idx,
                                                generated_contacts, 1)]
  ELSE [s EXCEPT !.target_to_query_map = Append(@, s.query_idx),
                 !.query_idx = @ + 1,
                 !.target_idx = @ + 1]

\* One iteration of the first pass: column i with bytes qc and tc.
acm_Column(s, qc, tc, generated_contacts) ==
  IF qc = GAP
  THEN [s EXCEPT !.target_to_query_map = Append(@, -1),
                 !.target_idx = @ + 1]
  ELSE IF tc = GAP
  THEN [s EXCEPT !.sparse_query_contacts =
                     @ \o acm_GeneratedContacts(s.query_idx,
                                                generated_contacts, 1),
                 !.query_idx = @ + 1]
  ELSE [s EXCEPT !.target_to_query_map = Append(@, s.query_idx),
                 !.query_idx = @ + 1,
                 !.target_idx = @ + 1]

\* State of the first pass after columns 0..k-1.
RECURSIVE acm_FirstPass(_, _, _, _, _)
acm_FirstPass(q, t, generated_contacts, junk, k) ==
  IF k = 0
  THEN [query_idx |-> 0, target_idx |-> 0,
        target_to_query_map |-> <<>>, sparse_query_contacts |-> <<>>]
  ELSE acm_Column(acm_FirstPass(q, t, generated_contacts, junk, k - 1),
                  q[k], ReadChar(t, k - 1, junk), generated_contacts)

\* Variant of the bounds test that also turns away target residue 0.
LessThanSize_ZeroExcluded(t_res, size) == t_res > 0 /\ t_res < size

\* t_res < target_to_query_map.size(): an int compared with a size_t is
\* converted to unsigned, so a negative index compares greater than any size.
LessThanSize(t_res, size) == t_res >= 0 /\ t_res < size

\* Second pass: the query-space pairs appended for rows 1..k of the target map.
RECURSIVE acm_Translate(_, _, _)
acm_Translate(target_to_query_map, sparse_target, k) ==
  IF k = 0 THEN <<>>
  ELSE LET prev == acm_Translate(target_to_query_map, sparse_target, k - 1)
           t_res_i == sparse_target[k][1]
           t_res_j == sparse_target[k][2]
       IN IF LessThanSize(t_res_i, Len(target_to_query_map))
             /\ LessThanSize(t_res_j, Len(target_to_query_map))
          THEN LET q_res_i == target_to_query_map[t_res_i + 1]
                   q_res_j == target_to_query_map[t_res_j + 1]
               IN IF q_res_i # -1 /\ q_res_j # -1
                  THEN Append(prev, <<q_res_i, q_res_j>>)
                  ELSE prev
          ELSE prev

\* np.zeros((query_idx, query_idx)) with the diagonal filled.
acm_Diagonal(query_idx) ==
  [cells |-> {<<i, i>> : i \in 0..query_idx - 1},
   writes |-> [i \in 1..query_idx |-> <<i - 1, i - 1>>]]

\* Output after the first k pairs of sparse_query_contacts have been filled in.
RECURSIVE acm_Fill(_, _, _)
acm_Fill(contacts, query_idx, k) ==
  IF k = 0 THEN acm_Diagonal(query_idx)
  ELSE LET o == acm_Fill(contacts, query_idx, k - 1)
           p1 == contacts[k][1]
           p2 == contacts[k][2]
       IN IF 0 <= p1 /\ p1 < query_idx /\ 0 <= p2 /\ p2 < query_idx
          THEN [cells |-> o.cells \cup {<<p1, p2>>, <<p2, p1>>},
                writes |-> o.writes \o << <<p1, p2>>, <<p2, p1>> >>]
          ELSE o

\* The rows of the target map for which the second pass appended a pair,
\* each with the pair it appended.
acm_Translated(target_to_query_map, sparse_target) ==
  LET Kept(row) == Len(acm_Translate(target_to_query_map, <<row>>, 1)) = 1
      rows == SelectSeq(sparse_target, Kept)
  IN [n \in 1..Len(rows) |->
        [target |-> rows[n],
         query |-> acm_Translate(target_to_query_map, <<rows[n]>>, 1)[1]]]

\* The indices target_to_query_map is read at in the second pass, in order:
\* both endpoints of a row, and only when both passed the test of line 150.
RECURSIVE acm_MapReads(_, _, _)
acm_MapReads(target_to_query_map, sparse_target, k) ==
  IF k = 0 THEN <<>>
  ELSE LET prev == acm_MapReads(target_to_query_map, sparse_target, k - 1)
           t_res_i == sparse_target[k][1]
           t_res_j == sparse_target[k][2]
       IN IF LessThanSize(t_res_i, Len(target_to_query_map))
             /\ LessThanSize(t_res_j, Len(target_to_query_map))
          THEN prev \o <<t_res_i, t_res_j>>
          ELSE prev

\* The counters and the number of elements of target_to_query_map
\* (push_back: one more element per consumed target residue) after columns
\* 0..k-1, for k = 0..align_len.
acm_Steps(q, t, generated_contacts, junk) ==
  [n \in 1..Len(q) + 1 |->
     LET pass == acm_FirstPass(q, t, generated_contacts, junk, n - 1)
     IN [query_index |-> pass.query_idx,
         target_index |-> pass.target_idx,
         entries |-> Len(pass.target_to_query_map)]]

align_contact_map(q, t, sparse_target, generated_contacts, junk) ==
  LET align_len == Len(q)
      pass == acm_FirstPass(q, t, generated_contacts, junk, align_len)
      contacts == pass.sparse_query_contacts
                  \o acm_Translate(pass.target_to_query_map, sparse_target,
                                   Len(sparse_target))
      output_map == acm_Fill(contacts, pass.query_idx, Len(contacts))
  IN [NoResult EXCEPT !.size = pass.query_idx,
                      !.cells = output_map.cells,
                      !.writes = output_map.writes,
                      !.sparse = sparse_target,
                      !.target_to_query = pass.target_to_query_map,
                      !.cols = align_len,
                      !.steps = acm_Steps(q, t, generated_contacts, junk),
                      !.translated =
                        acm_Translated(pass.target_to_query_map, sparse_target),
                      !.map_reads =
                        acm_MapReads(pass.target_to_query_map, sparse_target,
                                     Len(sparse_target)),
                      !.returned = "output_map"]

\* ------------------------------------------------------------------------
\* Structures and structure files
\* ------------------------------------------------------------------------
Points == {<<0, 0, 0>>, <<0, 3, 4>>, <<10, 0, 0>>}
Thresholds == {1, 6}
JunkAtoms == {<<0, 0, 0>>, <<10, 0, 0>>}

PositionLists == UNION {[1..n -> Points] : n \in 0..MaxAtoms}

\* Group boundaries: count = residue_count + 1 entries, non-decreasing, the
\* last one the atom count.
GroupLists(atom_count) ==
  UNION {{g \in [1..count -> 0..atom_count] :
            /\ g[count] = atom_count
            /\ \A i \in 1..count - 1 : g[i] <= g[i + 1]} :
         count \in 1..MaxResidues + 1}

Structures ==
  UNION {{[groups |-> g, positions |-> p] : g \in GroupLists(Len(p))} :
         p \in PositionLists}

\* src/CPP_lib/atoms_file_io.h : LoadAtomsFile on a file that SaveAtomsFile
\* wrote from the structure: chain_length is the stored count minus one.
LoadAtomsFile(file) ==
  [chain_length |-> Len(file.groups) - 1,
   group_indexes |-> file.groups,
   atoms_positions |-> file.positions]

\* Atom k of a positions buffer; past the end of the buffer the read returns
\* whatever the memory holds (junk_atom).
AtomAt(positions, k, junk_atom) ==
  IF k < Len(positions) THEN positions[k + 1] ELSE junk_atom

Square(v) == v * v

\* ------------------------------------------------------------------------
\* The three distance functions.  Each definition returns the SQUARE of the
\* value the code compares with the threshold whenever the code takes a
\* square root, so that the comparison stays in the integers:
\* sqrt(v) <= t  iff  v <= t * t  for t > 0.
\* ------------------------------------------------------------------------

\* src/mDeepFRI/CPP_lib/load_contact_maps.cpp : Distance.  The second atom is
\* read at offset xIndex + 3 * j, i.e. atom i + j, and std::hypot is applied
\* to the three squared differences: the result is
\* sqrt(xSquared^2 + ySquared^2 + zSquared^2).
Distance(array, i, j, junk_atom) ==
  LET a == AtomAt(array, i, junk_atom)
      b == AtomAt(array, i + j, junk_atom)
      xSquared == Square(a[1] - b[1])
      ySquared == Square(a[2] - b[2])
      zSquared == Square(a[3] - b[3])
  IN Square(xSquared) + Square(ySquared) + Square(zSquared)

\* src/CPP_lib/library.cpp : Distance = sqrtf(dx^2 + dy^2 + dz^2).
Distance_library(array, i, j) ==
  Square(array[i + 1][1] - array[j + 1][1])
  + Square(array[i + 1][2] - array[j + 1][2])
  + Square(array[i + 1][3] - array[j + 1][3])

\* src/mDeepFRI/CPP_lib/atoms_io.pyx : distance = x*x + y*y + z*z (no root;
\* the caller compares with threshold_sq).
distance(array, i, j) ==
  LET x == array[i + 1][1] - array[j + 1][1]
      y == array[i + 1][2] - array[j + 1][2]
      z == array[i + 1][3] - array[j + 1][3]
  IN x * x + y * y + z * z

\* The comparison "Distance(...) <= angstrom_contact_threshold" for every
\* pair of atom indices the loops can visit.
AtomIndexPairs(file) ==
  (0..Len(file.positions) - 1) \X (0..Len(file.positions) - 1)

Close_cpp(file, threshold, junk_atom) ==
  [ab \in AtomIndexPairs(file) |->
     Distance(file.positions, ab[1], ab[2], junk_atom) <= Square(threshold)]

Close_library(file, threshold) ==
  [ab \in AtomIndexPairs(file) |->
     Distance_library(file.positions, ab[1], ab[2]) <= Square(threshold)]

Close_pyx(file, threshold) ==
  LET threshold_sq == threshold * threshold
  IN [ab \in AtomIndexPairs(file) |->
        distance(file.positions, ab[1], ab[2]) <= threshold_sq]

\* ------------------------------------------------------------------------
\* The atom scan of one residue pair
\* ------------------------------------------------------------------------
NoHit == <<-1, -1>>

\* for (atom_b = ...; atom_b < end_b; ++atom_b) if (close) { ...; break; }
\* returns the atom_b of the first hit, -1 when the loop runs to its end.
RECURSIVE ScanAtomB(_, _, _, _)
ScanAtomB(close, atom_a, atom_b, end_b) ==
  IF atom_b >= end_b THEN -1
  ELSE IF close[<<atom_a, atom_b>>] THEN atom_b
  ELSE ScanAtomB(close, atom_a, atom_b + 1, end_b)

\* for (atom_a = ...; atom_a < end_a; ++atom_a) { inner loop;
\*   if (group_connected) break; }   returns the atom pair of the first hit.
RECURSIVE ScanAtomA(_, _, _, _, _)
ScanAtomA(close, atom_a, end_a, start_b, end_b) ==
  IF atom_a >= end_a THEN NoHit
  ELSE LET hit == ScanAtomB(close, atom_a, start_b, end_b)
       IN IF hit # -1 THEN <<atom_a, hit>>
          ELSE ScanAtomA(close, atom_a + 1, end_a, start_b, end_b)

\* Variant of the group scan that starts group_a's atoms at the first atom of
\* the chain instead of the group's own first boundary.
ScanGroups_FromFirstAtom(close, group_indexes, group_a, group_b) ==
  ScanAtomA(close, group_indexes[1], group_indexes[group_a + 2],
            group_indexes[group_b + 1], group_indexes[group_b + 2])

ScanGroups(close, group_indexes, group_a, group_b) ==
  ScanAtomA(close, group_indexes[group_a + 1], group_indexes[group_a + 2],
            group_indexes[group_b + 1], group_indexes[group_b + 2])

\* The residue pairs in the order the two group loops visit them:
\* group_a from 0, group_b from group_a + 1.
RECURSIVE GroupPairs(_, _, _)
GroupPairs(chain_length, group_a, group_b) ==
  IF group_a >= chain_length THEN <<>>
  ELSE IF group_b >= chain_length
  THEN GroupPairs(chain_length, group_a + 1, group_a + 2)
  ELSE << <<group_a, group_b>> >>
       \o GroupPairs(chain_length, group_a, group_b + 1)

\* For the first k visited residue pairs: the connected ones, each with the
\* atom pair that connected it.
RECURSIVE ConnectedGroups(_, _, _, _)
ConnectedGroups(close, group_indexes, pairs, k) ==
  IF k = 0 THEN <<>>
  ELSE LET prev == ConnectedGroups(close, group_indexes, pairs, k - 1)
           hit == ScanGroups(close, group_indexes, pairs[k][1], pairs[k][2])
       IN IF hit # NoHit
          THEN Append(prev, [groups |-> pairs[k], atoms |-> hit])
          ELSE prev

\* Cells of a square matrix that the pairs and their mirrors cover.
BothWays(pairs) ==
  {pairs[k] : k \in 1..Len(pairs)}
  \cup {<<pairs[k][2], pairs[k][1]>> : k \in 1..Len(pairs)}

\* Variant of the diagonal loop that starts at group 1.
DiagonalCells_FromOne(chain_length) == {<<i, i>> : i \in 1..chain_length - 1}

\* output_data[group_a * chain_length + group_a] = true for every group_a
DiagonalCells(chain_length) == {<<i, i>> : i \in 0..chain_length - 1}

\* ------------------------------------------------------------------------
\* src/mDeepFRI/CPP_lib/load_contact_maps.cpp : builders
\* ------------------------------------------------------------------------
LoadDenseContactMap(file, threshold, junk_atom) ==
  LET f == LoadAtomsFile(file)
      pairs == GroupPairs(f.chain_length, 0, 1)
      hits == ConnectedGroups(Close_cpp(file, threshold, junk_atom),
                              f.group_indexes, pairs, Len(pairs))
      connected == [k \in 1..Len(hits) |-> hits[k].groups]
  IN [NoResult EXCEPT !.size = f.chain_length,
                      !.cells = DiagonalCells(f.chain_length)
                                \cup BothWays(connected),
                      !.returned = "output_data"]

\* sparse_contacts->emplace_back(group_a, group_b)
LoadSparseContactMap(file, threshold, junk_atom) ==
  LET f == LoadAtomsFile(file)
      pairs == GroupPairs(f.chain_length, 0, 1)
      hits == ConnectedGroups(Close_cpp(file, threshold, junk_atom),
                              f.group_indexes, pairs, Len(pairs))
  IN [NoResult EXCEPT !.size = f.chain_length,
                      !.sparse = [k \in 1..Len(hits) |-> hits[k].groups],
                      !.returned = "sparse_contacts"]

\* ------------------------------------------------------------------------
\* src/CPP_lib/library.cpp : builders
\* ------------------------------------------------------------------------
LoadArrayContactMap(file, threshold) ==
  LET f == LoadAtomsFile(file)
      pairs == GroupPairs(f.chain_length, 0, 1)
      hits == ConnectedGroups(Close_library(file, threshold),
                              f.group_indexes, pairs, Len(pairs))
      connected == [k \in 1..Len(hits) |-> hits[k].groups]
  IN [NoResult EXCEPT !.size = f.chain_length,
                      !.cells = DiagonalCells(f.chain_length)
                                \cup BothWays(connected),
                      !.returned = "output_data"]

\* new std::vector<std::pair<int, int>>(chain_length * 10): the vector starts
\* with chain_length * 10 value-initialised pairs (0, 0).
Placeholders(count) == [k \in 1..count |-> <<0, 0>>]

\* sparse_contacts->push_back(std::pair<int, int>(atom_a, atom_b))
LoadSparseContactMap_library(file, threshold) ==
  LET f == LoadAtomsFile(file)
      pairs == GroupPairs(f.chain_length, 0, 1)
      hits == ConnectedGroups(Close_library(file, threshold),
                              f.group_indexes, pairs, Len(pairs))
  IN [NoResult EXCEPT !.size = f.chain_length,
                      !.sparse = Placeholders(f.chain_length * 10)
                                 \o [k \in 1..Len(hits) |-> hits[k].atoms],
                      !.returned = "sparse_contacts"]

\* ------------------------------------------------------------------------
\* src/mDeepFRI/CPP_lib/atoms_io.pyx : load_contact_map
\* ------------------------------------------------------------------------

\* for atom_b in range(...): if dist <= threshold_sq: connected = True; ...
\* (no break in the inner loop)
RECURSIVE lcm_InnerLoop(_, _, _, _, _)
lcm_InnerLoop(close, atom_a, atom_b, end_b, connected) ==
  IF atom_b >= end_b THEN connected
  ELSE lcm_InnerLoop(close, atom_a, atom_b + 1, end_b,
                     IF close[<<atom_a, atom_b>>] THEN TRUE ELSE connected)

\* for atom_a in range(...): inner loop; if connected: break
RECURSIVE lcm_OuterLoop(_, _, _, _, _)
lcm_OuterLoop(close, atom_a, end_a, start_b, end_b) ==
  IF atom_a >= end_a THEN FALSE
  ELSE IF lcm_InnerLoop(close, atom_a, start_b, end_b, FALSE) THEN TRUE
  ELSE lcm_OuterLoop(close, atom_a + 1, end_a, start_b, end_b)

lcm_Connected(close, groups, pairs) ==
  SelectSeq(pairs,
            LAMBDA p : lcm_OuterLoop(close, groups[p[1] + 1], groups[p[1] + 2],
                                     groups[p[2] + 1], groups[p[2] + 2]))

\* np.argwhere(contact_map == True): the true cells in row-major order,
\* rows first_row..chain_length-1.
RECURSIVE ArgWhere(_, _, _, _)
ArgWhere(cells, chain_length, row, col) ==
  IF row >= chain_length THEN <<>>
  ELSE IF col >= chain_length THEN ArgWhere(cells, chain_length, row + 1, 0)
  ELSE (IF <<row, col>> \in cells THEN << <<row, col>> >> ELSE <<>>)
       \o ArgWhere(cells, chain_length, row, col + 1)

load_contact_map(file, threshold, mode) ==
  LET chain_length == Len(file.groups) - 1
      pairs == GroupPairs(chain_length, 0, 1)
      connected == lcm_Connected(Close_pyx(file, threshold), file.groups, pairs)
      contact_map == DiagonalCells(chain_length) \cup BothWays(connected)
  IN IF mode = "matrix"
     THEN [NoResult EXCEPT !.size = chain_length,
                           !.cells = contact_map,
                           !.returned = "contact_map"]
     ELSE [NoResult EXCEPT !.size = chain_length,
                           !.sparse = ArgWhere(contact_map, chain_length, 0, 0),
                           !.returned = "argwhere"]

\* ------------------------------------------------------------------------
\* src/mDeepFRI/CPP_lib/load_contact_maps.cpp : LoadAlignedContactMap
\* ------------------------------------------------------------------------

\* for (j = 1; j < generated_contacts + 1; ++j)
\*   emplace_back(query_index - j, query_index); emplace_back(query_index + j, ..)
RECURSIVE lacm_GeneratedContacts(_, _, _)
lacm_GeneratedContacts(query_index, generated_contacts, j) ==
  IF ~(j < generated_contacts + 1) THEN <<>>
  ELSE << <<query_index - j, query_index>>, <<query_index + j, query_index>> >>
       \o lacm_GeneratedContacts(query_index, generated_contacts, j + 1)

\* One iteration of the column loop.  target_to_query_indexes is a vector
\* with reserved capacity and no elements; the code stores through
\* operator[] at target_index, so the written entries are exactly
\* 0..target_index-1 and the model keeps those.
lacm_Column(s, qc, tc, generated_contacts) ==
  IF qc = GAP
  THEN [s EXCEPT !.target_to_query_indexes = Append(@, -1),
                 !.target_index = @ + 1]
  ELSE IF tc = GAP
  THEN [s EXCEPT !.sparse_query_contacts =
                     @ \o lacm_GeneratedContacts(s.query_index,
                                                 generated_contacts, 1),
                 !.query_index = @ + 1]
  ELSE [s EXCEPT !.target_to_query_indexes = Append(@, s.query_index),
                 !.target_index = @ + 1,
                 !.query_index = @ + 1]

\* for (i = 0; i < query_alignment.size(); ++i): state after columns 0..k-1.
\* target_alignment[i] is std::string::operator[]: '\0' at index size(),
\* junk past it.
RECURSIVE lacm_ColumnLoop(_, _, _, _, _)
lacm_ColumnLoop(q, t, generated_contacts, junk, k) ==
  IF k = 0
  THEN [query_index |-> 0, target_index |-> 0,
        target_to_query_indexes |-> <<>>, sparse_query_contacts |-> <<>>]
  ELSE lacm_Column(lacm_ColumnLoop(q, t, generated_contacts, junk, k - 1),
                   q[k], ReadChar(t, k - 1, junk), generated_contacts)

\* target_to_query_indexes[idx] without a bounds check: an entry the column
\* loop never wrote is uninitialised memory (garbage).
lacm_ReadMap(written, idx, garbage) ==
  IF 0 <= idx /\ idx < Len(written) THEN written[idx + 1] ELSE garbage

\* for (i = 0; i < sparse_target_contacts->size(); ++i): the pairs appended
\* for target contacts 1..k, those with a negative end skipped.
lacm_Translate(written, sparse_target, garbage, k) ==
  LET translated ==
        [n \in 1..k |->
           <<lacm_ReadMap(written, sparse_target[n][1], garbage),
             lacm_ReadMap(written, sparse_target[n][2], garbage)>>]
      Kept(pair) == ~(pair[1] < 0) /\ ~(pair[2] < 0)
  IN SelectSeq(translated, Kept)

\* output_data is a flat buffer of query_index * query_index bools.  flat is
\* the set of buffer offsets that hold true, writes the (row, column) index
\* pairs the stores were made with.  A store at an offset outside the buffer
\* does not land in the matrix.
lacm_Diagonal(query_index) ==
  [flat |-> {i * query_index + i : i \in 0..query_index - 1},
   writes |-> [i \in 1..query_index |-> <<i - 1, i - 1>>]]

\* for (const auto& pair : sparse_query_contacts): pairs 1..k, those whose
\* first index is negative or >= query_index skipped; each stored pair sets
\* [first][second] and [second][first].
lacm_Fill(contacts, query_index, k) ==
  LET Stored(pair) == ~(pair[1] < 0) /\ ~(pair[1] >= query_index)
      stored == SelectSeq(SubSeq(contacts, 1, k), Stored)
      diagonal == lacm_Diagonal(query_index)
  IN [flat |-> diagonal.flat
               \cup {stored[n][1] * query_index + stored[n][2] :
                       n \in 1..Len(stored)}
               \cup {stored[n][2] * query_index + stored[n][1] :
                       n \in 1..Len(stored)},
      writes |-> diagonal.writes
                 \o [n \in 1..2 * Len(stored) |->
                       IF n % 2 = 1
                       THEN <<stored[(n + 1) \div 2][1],
                              stored[(n + 1) \div 2][2]>>
                       ELSE <<stored[n \div 2][2], stored[n \div 2][1]>>]]

\* CreateNumpyArray(output_data, size): cell (i, j) is offset i * size + j.
CreateNumpyArray(flat, size) ==
  {c \in (0..size - 1) \X (0..size - 1) : c[1] * size + c[2] \in flat}

\* The indices target_to_query_indexes is read at in the second loop, in
\* order: .first of every contact, .second unless contact_x < 0.
RECURSIVE lacm_MapReads(_, _, _, _)
lacm_MapReads(written, sparse_target, garbage, k) ==
  IF k = 0 THEN <<>>
  ELSE LET prev == lacm_MapReads(written, sparse_target, garbage, k - 1)
           contact_x == lacm_ReadMap(written, sparse_target[k][1], garbage)
       IN IF contact_x < 0
          THEN Append(prev, sparse_target[k][1])
          ELSE prev \o <<sparse_target[k][1], sparse_target[k][2]>>

\* The target contacts for which the second loop appended a pair, each
\* with the pair it appended.
lacm_Translated(written, sparse_target, garbage) ==
  LET Kept(row) == Len(lacm_Translate(written, <<row>>, garbage, 1)) = 1
      rows == SelectSeq(sparse_target, Kept)
  IN [n \in 1..Len(rows) |->
        [target |-> rows[n],
         query |-> lacm_Translate(written, <<rows[n]>>, garbage, 1)[1]]]

\* target_to_query_indexes.size(): reserve() sets the capacity and leaves the
\* vector empty, and a store through operator[] adds no element.
vector_size(reserved, stored) == 0

\* The counters and target_to_query_indexes.size() after columns 0..k-1, for
\* k = 0..query_alignment.size().
lacm_Steps(q, t, generated_contacts, junk) ==
  [n \in 1..Len(q) + 1 |->
     LET loop == lacm_ColumnLoop(q, t, generated_contacts, junk, n - 1)
     IN [query_index |-> loop.query_index,
         target_index |-> loop.target_index,
         entries |-> vector_size(Len(q), Len(loop.target_to_query_indexes))]]

\* Lines 141-199: everything after the call of LoadSparseContactMap.
lacm_Remap(sparse_target_contacts, q, t, generated_contacts, junk, garbage) ==
  LET loop == lacm_ColumnLoop(q, t, generated_contacts, junk, Len(q))
      contacts == loop.sparse_query_contacts
                  \o lacm_Translate(loop.target_to_query_indexes,
                                    sparse_target_contacts, garbage,
                                    Len(sparse_target_contacts))
      output_data == lacm_Fill(contacts, loop.query_index, Len(contacts))
  IN [NoResult EXCEPT !.size = loop.query_index,
                      !.cells = CreateNumpyArray(output_data.flat,
                                                 loop.query_index),
                      !.writes = output_data.writes,
                      !.sparse = sparse_target_contacts,
                      !.target_to_query = loop.target_to_query_indexes,
                      !.cols = Len(q),
                      !.steps = lacm_Steps(q, t, generated_contacts, junk),
                      !.translated =
                        lacm_Translated(loop.target_to_query_indexes,
                                        sparse_target_contacts, garbage),
                      !.map_reads =
                        lacm_MapReads(loop.target_to_query_indexes,
                                      sparse_target_contacts, garbage,
                                      Len(sparse_target_contacts)),
                      !.returned = "output_data"]

LoadAlignedContactMap(file, threshold, q, t, generated_contacts, junk, junk_atom, garbage) ==
  lacm_Remap(LoadSparseContactMap(file, threshold, junk_atom).sparse,
             q, t, generated_contacts, junk, garbage)

\* ------------------------------------------------------------------------
\* LoadAlignedContactMap on a path: the file may be missing.
\* ------------------------------------------------------------------------
\* exists(name): stat(name) == 0
exists(path) == path.kind # "none"

\* The structure LoadAtomsFile reads from a file a binary writer left.
StructureOf(path) ==
  LET count == path.words[1]
      atom_count == path.words[1 + count]
  IN [groups |-> SubSeq(path.words, 2, 1 + count),
      positions |->
        [a \in 1..atom_count |->
           <<path.words[1 + count + 3 * a - 2],
             path.words[1 + count + 3 * a - 1],
             path.words[1 + count + 3 * a]>>]]

\* LoadSparseContactMap, lines 85-89: prints "Error: file ... doesn't exist"
\* and returns nullptr.
LoadSparseContactMap_path(path, threshold, junk_atom) ==
  IF ~exists(path)
  THEN [NoResult EXCEPT !.returned = "nullptr"]
  ELSE LoadSparseContactMap(StructureOf(path), threshold, junk_atom)

\* What sparse_target_contacts->size() can do on a null pointer: the process
\* is killed, or the read yields some size.
NullOutcomes == {"SIGSEGV", "size 0", "size 1"}

\* Line 142 calls sparse_target_contacts->size() without a null check.
LoadAlignedContactMap_path(path, threshold, q, t, generated_contacts, junk, junk_atom, garbage, outcome) ==
  LET loaded == LoadSparseContactMap_path(path, threshold, junk_atom)
  IN IF loaded.returned # "nullptr"
     THEN lacm_Remap(loaded.sparse, q, t, generated_contacts, junk, garbage)
     ELSE IF outcome = "SIGSEGV"
     THEN [NoResult EXCEPT !.error = "SIGSEGV", !.null_dereferenced = TRUE]
     ELSE [lacm_Remap(IF outcome = "size 0" THEN <<>>
                      ELSE << <<garbage, garbage>> >>,
                      q, t, generated_contacts, junk, garbage)
             EXCEPT !.null_dereferenced = TRUE]

\* ------------------------------------------------------------------------
\* src/CPP_lib/library.cpp : LoadAlignedContactMap
\* ------------------------------------------------------------------------

\* for (j = 1; j < generated_contacts; ++j)
RECURSIVE lib_GeneratedContacts(_, _, _)
lib_GeneratedContacts(query_index, generated_contacts, j) ==
  IF ~(j < generated_contacts) THEN <<>>
  ELSE << <<query_index - j, query_index>>, <<query_index + j, query_index>> >>
       \o lib_GeneratedContacts(query_index, generated_contacts, j + 1)

\* target_to_query_indexes is std::vector<int>(query_alignment.size()):
\* query_alignment.size() zeros, overwritten at target_index.
lib_Column(s, qc, tc, generated_contacts) ==
  IF qc = GAP
  THEN [s EXCEPT !.target_to_query_indexes[s.target_index + 1] = -1,
                 !.target_index = @ + 1]
  ELSE IF tc = GAP
  THEN [s EXCEPT !.sparse_query_contacts =
                     @ \o lib_GeneratedContacts(s.query_index,
                                                generated_contacts, 1),
                 !.query_index = @ + 1]
  ELSE [s EXCEPT !.target_to_query_indexes[s.target_index + 1] = s.query_index,
                 !.target_index = @ + 1,
                 !.query_index = @ + 1]

\* sparse_query_contacts(sparse_target_contacts->size()): the vector starts
\* with one (0, 0) pair per target contact.
RECURSIVE lib_ColumnLoop(_, _, _, _, _, _)
lib_ColumnLoop(q, t, generated_contacts, junk, target_size, k) ==
  IF k = 0
  THEN [query_index |-> 0, target_index |-> 0,
        target_to_query_indexes |-> [i \in 1..Len(q) |-> 0],
        sparse_query_contacts |-> Placeholders(target_size)]
  ELSE lib_Column(lib_ColumnLoop(q, t, generated_contacts, junk,
                                 target_size, k - 1),
                  q[k], ReadChar(t, k - 1, junk), generated_contacts)

LoadAlignedContactMap_library(file, threshold, q, t, generated_contacts, junk, garbage) ==
  LET sparse_target_contacts ==
        LoadSparseContactMap_library(file, threshold).sparse
      loop == lib_ColumnLoop(q, t, generated_contacts, junk,
                             Len(sparse_target_contacts), Len(q))
      contacts == loop.sparse_query_contacts
                  \o lacm_Translate(loop.target_to_query_indexes,
                                    sparse_target_contacts, garbage,
                                    Len(sparse_target_contacts))
      output_data == lacm_Fill(contacts, loop.query_index, Len(contacts))
  IN [NoResult EXCEPT !.size = loop.query_index,
                      !.cells = CreateNumpyArray(output_data.flat,
                                                 loop.query_index),
                      !.writes = output_data.writes,
                      !.sparse = sparse_target_contacts,
                      !.target_to_query = loop.target_to_query_indexes,
                      !.cols = Len(q),
                      !.translated =
                        lacm_Translated(loop.target_to_query_indexes,
                                        sparse_target_contacts, garbage),
                      !.map_reads =
                        lacm_MapReads(loop.target_to_query_indexes,
                                      sparse_target_contacts, garbage,
                                      Len(sparse_target_contacts)),
                      !.returned = "output_data"]

\* ------------------------------------------------------------------------
\* src/mDeepFRI/CPP_lib/atoms_io.pyx : load_aligned_contact_map
\* ------------------------------------------------------------------------

\* np.array(..., dtype=np.uint32) of a negative int wraps modulo 2^32.  The
\* model checker's integers stop below 2^32, so UINT32_WRAP stands for it:
\* all that the code depends on is that a wrapped value exceeds every index.
UINT32_WRAP == 1073741824
AsUint32(v) == IF v < 0 THEN v + UINT32_WRAP ELSE v

\* for j in range(generated_contacts):
\*   append [query_index - j, query_index]; append [query_index + j, query_index]
RECURSIVE pyx_GeneratedContacts(_, _, _)
pyx_GeneratedContacts(query_index, generated_contacts, j) ==
  IF j >= generated_contacts THEN <<>>
  ELSE << <<AsUint32(query_index - j), AsUint32(query_index)>>,
          <<AsUint32(query_index + j), AsUint32(query_index)>> >>
       \o pyx_GeneratedContacts(query_index, generated_contacts, j + 1)

\* One iteration; target_alignment[i] is Python string indexing and raises
\* IndexError past the end of the string (i.e. when tc is not a character
\* of the string).
pyx_Column(s, qc, tc, generated_contacts) ==
  IF s.error # "none" THEN s
  ELSE IF qc = GAP
  THEN [s EXCEPT !.target_to_query_indexes[s.target_index + 1] = -1,
                 !.target_index = @ + 1,
                 !.cols = @ + 1]
  ELSE IF tc \notin Chars THEN [s EXCEPT !.error = "IndexError"]
  ELSE IF tc = GAP
  THEN [s EXCEPT !.sparse_query_contacts =
                     @ \o pyx_GeneratedContacts(s.query_index,
                                                generated_contacts, 0),
                 !.query_index = @ + 1,
                 !.cols = @ + 1]
  ELSE [s EXCEPT !.target_to_query_indexes[s.target_index + 1] = s.query_index,
                 !.query_index = @ + 1,
                 !.target_index = @ + 1,
                 !.cols = @ + 1]

\* Python indexing of target_alignment: the character, or no character.
PyStrAt(s, i) == IF i < Len(s) THEN s[i + 1] ELSE "IndexError"

RECURSIVE pyx_ColumnLoop(_, _, _, _)
pyx_ColumnLoop(q, t, generated_contacts, k) ==
  IF k = 0
  THEN [query_index |-> 0, target_index |-> 0,
        target_to_query_indexes |-> [i \in 1..Len(q) |-> 0],
        sparse_query_contacts |-> <<>>, cols |-> 0, error |-> "none"]
  ELSE pyx_Column(pyx_ColumnLoop(q, t, generated_contacts, k - 1),
                  q[k], PyStrAt(t, k - 1), generated_contacts)

\* for row in sparse_target_contacts: ... if contact_x != -1 or
\* contact_y != -1: continue; append [contact_x, contact_y] as uint32.
\* Indexing the memoryview is bounds-checked: IndexError past its length.
RECURSIVE pyx_Translate(_, _, _)
pyx_Translate(map, sparse_target, k) ==
  IF k = 0 THEN [contacts |-> <<>>, error |-> "none"]
  ELSE LET prev == pyx_Translate(map, sparse_target, k - 1)
           row == sparse_target[k]
       IN IF prev.error # "none" THEN prev
          ELSE IF row[1] >= Len(map) \/ row[2] >= Len(map)
          THEN [prev EXCEPT !.error = "IndexError"]
          ELSE LET contact_x == map[row[1] + 1]
                   contact_y == map[row[2] + 1]
               IN IF contact_x # -1 \/ contact_y # -1 THEN prev
                  ELSE [prev EXCEPT !.contacts =
                          Append(@, <<AsUint32(contact_x),
                                      AsUint32(contact_y)>>)]

\* for row in sparse_query_contacts:
\*   if row[0] < 0 or row[0] >= query_index: continue
\*   contact_map[row[0], row[1]] = True; contact_map[row[1], row[0]] = True
RECURSIVE pyx_Fill(_, _, _)
pyx_Fill(contacts, query_index, k) ==
  IF k = 0 THEN acm_Diagonal(query_index)
  ELSE LET o == pyx_Fill(contacts, query_index, k - 1)
           row == contacts[k]
       IN IF row[1] < 0 \/ row[1] >= query_index THEN o
          ELSE [cells |-> o.cells \cup {<<row[1], row[2]>>, <<row[2], row[1]>>},
                writes |-> o.writes \o << <<row[1], row[2]>>,
                                          <<row[2], row[1]>> >>]

\* The function ends with "return sparse_target_contacts": the caller gets
\* the target's sparse list; contact_map stays a local (kept in cells here).
load_aligned_contact_map(file, threshold, q, t, generated_contacts) ==
  LET sparse_target_contacts == load_contact_map(file, threshold, "sparse").sparse
      loop == pyx_ColumnLoop(q, t, generated_contacts, Len(q))
      translated == pyx_Translate(loop.target_to_query_indexes,
                                  sparse_target_contacts,
                                  Len(sparse_target_contacts))
      contacts == loop.sparse_query_contacts \o translated.contacts
      contact_map == pyx_Fill(contacts, loop.query_index, Len(contacts))
  IN IF loop.error # "none"
     THEN [NoResult EXCEPT !.cols = loop.cols, !.error = loop.error,
                           !.sparse = sparse_target_contacts]
     ELSE IF translated.error # "none"
     THEN [NoResult EXCEPT !.cols = loop.cols, !.error = translated.error,
                           !.size = loop.query_index,
                           !.sparse = sparse_target_contacts,
                           !.target_to_query = loop.target_to_query_indexes]
     ELSE [NoResult EXCEPT !.size = loop.query_index,
                           !.cells = contact_map.cells,
                           !.writes = contact_map.writes,
                           !.sparse = sparse_target_contacts,
                           !.target_to_query = loop.target_to_query_indexes,
                           !.cols = loop.cols,
                           !.returned = "sparse_target_contacts"]

\* ------------------------------------------------------------------------
\* Structure Store: the structure file and its writers and readers.
\* The file is a sequence of 4-byte words (ints and floats are written and
\* read 4 bytes at a time), or text when a writer used formatted output.
\* ------------------------------------------------------------------------
NoDisk == [kind |-> "none", words |-> <<>>, bytes |-> 0]

\* position_array: x, y, z of atom 0, then of atom 1, ...
Flatten(positions) ==
  [k \in 1..3 * Len(positions) |->
     positions[((k - 1) \div 3) + 1][((k - 1) % 3) + 1]]

\* src/mDeepFRI/CPP_lib/atoms_file_io.cpp : SaveAtomsFile (the same text is
\* in atoms_file_io.h, lines 72-81): three writer.write calls.
SaveAtomsFile(position_array, atom_count, groups_array, chain_length) ==
  LET words == <<chain_length>>
               \o SubSeq(groups_array, 1, chain_length)
               \o SubSeq(position_array, 1, 3 * atom_count)
  IN [kind |-> "binary", words |-> words, bytes |-> 4 * Len(words)]

\* src/mDeepFRI/CPP_lib/atoms_io.pyx : save_atoms_file copies the lists into
\* arrays and calls SaveAtomsFile with atom_count = int(len(positions) / 3).
save_atoms_file(positions_list, groups_list) ==
  SaveAtomsFile(positions_list, Len(positions_list) \div 3,
                groups_list, Len(groups_list))

\* src/CPP_lib/atoms_file_io.h : SaveAtomsFile takes chain_length from the
\* shape of groups_array and atom_count from its last element.
SaveAtomsFile_library(position_array, groups_array) ==
  LET chain_length == Len(groups_array)
      atom_count == groups_array[chain_length]
      words == <<chain_length>>
               \o groups_array
               \o SubSeq(position_array, 1, 3 * atom_count)
  IN [kind |-> "binary", words |-> words, bytes |-> 4 * Len(words)]

\* Characters of "writer << pointer": "0x" and twelve hexadecimal digits.
PointerTextLength == 14

RECURSIVE DecimalDigits(_)
DecimalDigits(n) == IF n < 10 THEN 1 ELSE 1 + DecimalDigits(n \div 10)

\* src/mDeepFRI/CPP_lib/atoms_file_io.h, lines 24-39 : SaveAtomsFile with
\* formatted output: "writer << chain_length << std::endl", then the two
\* buffers' addresses, each followed by a newline.  No array element reaches
\* the file.
SaveAtomsFile_text(position_array, groups_array) ==
  LET chain_length == Len(groups_array)
  IN [kind |-> "text", words |-> <<>>,
      bytes |-> DecimalDigits(chain_length) + 1
                + 2 * (PointerTextLength + 1)]

\* Values a word can hold that no read has filled.
UninitialisedWords == {0, 1}

\* Word k (from 1) of the file; when the read falls short the destination
\* keeps what it held (fill).
WordAt(words, k, fill) == IF k <= Len(words) THEN words[k] ELSE fill

\* src/CPP_lib/atoms_file_io.h : LoadAtomsFile on the words of a file.  The
\* buffers come from new int[] / new float[] and reader.read is never
\* checked, so every word the file does not supply is uninitialised
\* (garbage).  words is empty when the file is missing.
LoadAtomsFile_read(words, garbage) ==
  LET count == WordAt(words, 1, garbage)
      group_indexes == [k \in 1..count |-> WordAt(words, 1 + k, garbage)]
      chain_length == count - 1
      atom_count == IF count >= 1 THEN group_indexes[count] ELSE garbage
      atoms_positions ==
        [k \in 1..3 * atom_count |-> WordAt(words, 1 + count + k, garbage)]
  IN [NoResult EXCEPT
        !.structure = [NoStructure EXCEPT
                         !.chain_length = chain_length,
                         !.group_indexes = group_indexes,
                         !.atoms_positions = atoms_positions],
        !.uninitialised = Len(words) < 1 + count + 3 * atom_count,
        !.returned = "tuple"]

\* The 4-byte word w (from 0) that reader.read(group_indexes, 4 * count)
\* copies into the boundaries buffer: from the file when w < count and the
\* file holds it, the zero the buffer was filled with otherwise.
GroupWord(words, count, w) ==
  IF w < count THEN WordAt(words, 2 + w, 0) ELSE 0

\* src/mDeepFRI/CPP_lib/atoms_file_io.h, lines 83-108 : LoadAtomsFile with
\* size_t buffers.  reader.read(&chain_length, 4) fills the low half of an
\* uninitialised size_t (high_garbage is the other half).  group_indexes is
\* make_unique<size_t[]>(chain_length), zero-filled, and the read copies
\* 4 * chain_length bytes into it: two 4-byte boundaries land in each
\* 8-byte element (the first in its low half, the second in its high half)
\* and the upper half of the array stays zero.
LoadAtomsFile_size_t(file, garbage, high_garbage) ==
  IF file.kind = "none"
  THEN [NoResult EXCEPT !.error = "runtime_error"]
  ELSE IF high_garbage # 0
  THEN [NoResult EXCEPT !.error = "bad_alloc"]
  ELSE
  LET words == file.words
      count == WordAt(words, 1, garbage)
      low == [e \in 1..count |-> GroupWord(words, count, 2 * (e - 1))]
      high == [e \in 1..count |-> GroupWord(words, count, 2 * (e - 1) + 1)]
      chain_length == count - 1
      atom_count_low == IF count >= 1 THEN low[count] ELSE garbage
      atom_count_high == IF count >= 1 THEN high[count] ELSE 0
  IN IF atom_count_high # 0
     THEN [NoResult EXCEPT !.error = "bad_alloc"]
     ELSE [NoResult EXCEPT
             !.structure =
               [chain_length |-> chain_length,
                group_indexes |-> low,
                group_indexes_high |-> high,
                atoms_positions |->
                  [k \in 1..3 * atom_count_low |->
                     WordAt(words, 1 + count + k, 0)]],
             !.uninitialised = Len(words) < 1 + count + 3 * atom_count_low,
             !.returned = "tuple"]

\* np.fromfile(count=count, offset=4 * offset): the number of items read, at
\* most count and no more than the file holds past the offset.
Available(words, offset, count) ==
  IF Len(words) - offset < 0 THEN 0
  ELSE IF Len(words) - offset < count THEN Len(words) - offset
  ELSE count

\* src/mDeepFRI/CPP_lib/atoms_io.pyx : load_atoms_file.  np.fromfile returns
\* as many items as the file holds, at most count; an empty array cannot
\* become the int chain_length, and groups[-1] of an empty array is out of
\* bounds.
load_atoms_file(file) ==
  IF file.kind = "none" THEN [NoResult EXCEPT !.error = "FileNotFoundError"]
  ELSE IF Len(file.words) = 0 THEN [NoResult EXCEPT !.error = "TypeError"]
  ELSE
  LET words == file.words
      chain_length == words[1]
      groups == [k \in 1..Available(words, 1, chain_length) |-> words[1 + k]]
  IN IF Len(groups) = 0 THEN [NoResult EXCEPT !.error = "IndexError"]
     ELSE LET positions_offset == 1 + chain_length
              positions ==
                [k \in 1..Available(words, positions_offset,
                                    groups[Len(groups)] * 3) |->
                   words[positions_offset + k]]
          IN [NoResult EXCEPT
                !.structure = [NoStructure EXCEPT
                                 !.chain_length = chain_length - 1,
                                 !.group_indexes = groups,
                                 !.atoms_positions = positions],
                !.returned = "tuple"]

\* ------------------------------------------------------------------------
\* src/mDeepFRI/contact_map_utils.pyx : pairwise_sqeuclidean (prange over
\* the rows) and src/mDeepFRI/alignment_utils.pyx : pairwise_sqeuclidean
\* (the same loops, sequential).
\* ------------------------------------------------------------------------
MaxPoints == 3
MaxThreads == 2
Dims == {0, 2}
Coordinates == {0, 3}

\* float[:, ::1] X: n rows of m values.
Matrices ==
  UNION {[1..n -> [1..m -> Coordinates]] : n \in 0..MaxPoints, m \in Dims}

Cells(n) == (0..n - 1) \X (0..n - 1)

\* D = np.zeros((n, n), dtype=np.float32)
Zeros(n) == [c \in Cells(n) |-> 0]

\* d = 0.0; for k in range(m): diff = X[i, k] - X[j, k]; d = d + diff * diff
RECURSIVE sq_Accumulate(_, _, _, _)
sq_Accumulate(X, i, j, k) ==
  IF k = 0 THEN 0
  ELSE LET diff == X[i + 1][k] - X[j + 1][k]
       IN sq_Accumulate(X, i, j, k - 1) + diff * diff

\* for j in range(i + 1, n): the first j of row i.
sq_FirstColumn_FromZero(i) == 0
sq_FirstColumn(i) == i + 1

\* D[j, i] = d: the cell the second store goes to.
sq_Mirror_SameCell(i, j) == <<i, j>>
sq_Mirror(i, j) == <<j, i>>

\* The iteration a thread turns to: the pair (row, j) if row has a column
\* left, otherwise the first pair of the thread's next row.  With
\* schedule='static', chunksize=1 and T threads a thread takes every T-th row.
RECURSIVE sq_Normalise(_, _, _, _)
sq_Normalise(row, j, T, n) ==
  IF row >= n THEN [row |-> n, j |-> n]
  ELSE IF j < n THEN [row |-> row, j |-> j]
  ELSE sq_Normalise(row + T, sq_FirstColumn(row + T), T, n)

\* A thread: the pair it works on, its private d and what it does next.
sq_Thread(t, T, n) ==
  LET at == sq_Normalise(t, sq_FirstColumn(t), T, n)
  IN [row |-> at.row, j |-> at.j, d |-> 0,
      step |-> IF at.row >= n THEN "finished" ELSE "compute"]

NoPairwise ==
  [X |-> <<>>, n |-> 0, m |-> 0, D |-> Zeros(0), threads |-> <<>>,
   writes |-> {}, reads |-> {}, locks |-> 0]

\* The state at "with nogil: for i in prange(n, ...)" with T threads.
sq_Start(X, T) ==
  LET n == Len(X)
      m == IF n = 0 THEN 0 ELSE Len(X[1])
  IN [X |-> X, n |-> n, m |-> m, D |-> Zeros(n),
      threads |-> [t \in 1..T |-> sq_Thread(t - 1, T, n)],
      writes |-> {}, reads |-> {}, locks |-> 0]

\* The inner loop over k; d and diff are private to the thread.  The loop
\* reads X only: no statement of the function reads D, so reads stays empty.
sq_Compute(p, t) ==
  LET th == p.threads[t]
  IN [p EXCEPT !.threads[t].d = sq_Accumulate(p.X, th.row, th.j, p.m),
               !.threads[t].step = "store"]

\* D[i, j] = d
sq_Store(p, t) ==
  LET th == p.threads[t]
  IN [p EXCEPT !.D[<<th.row, th.j>>] = th.d,
               !.writes = @ \cup {<<th.row, <<th.row, th.j>>>>},
               !.threads[t].step = "store_mirror"]

\* D[j, i] = d, then the next j, or the thread's next row.
sq_StoreMirror(p, t) ==
  LET th == p.threads[t]
      at == sq_Normalise(th.row, th.j + 1, Len(p.threads), p.n)
  IN [p EXCEPT !.D[sq_Mirror(th.row, th.j)] = th.d,
               !.writes = @ \cup {<<th.row, sq_Mirror(th.row, th.j)>>},
               !.threads[t] =
                 [row |-> at.row, j |-> at.j, d |-> th.d,
                  step |-> IF at.row >= p.n THEN "finished" ELSE "compute"]]

\* One thread running its loop to the end.
RECURSIVE sq_Run(_, _)
sq_Run(p, t) ==
  IF p.threads[t].step = "finished" THEN p
  ELSE IF p.threads[t].step = "compute" THEN sq_Run(sq_Compute(p, t), t)
  ELSE IF p.threads[t].step = "store" THEN sq_Run(sq_Store(p, t), t)
  ELSE sq_Run(sq_StoreMirror(p, t), t)

\* alignment_utils.pyx : "for i in range(n)" in the calling thread.
pairwise_sqeuclidean_sequential(X) == sq_Run(sq_Start(X, 1), 1)

\* ------------------------------------------------------------------------
\* ContactMapper (BitSet and GenerateContactMap)
\* ------------------------------------------------------------------------
MaxSeqSize == 5
InitialBits == 100
ContactThresholdSquared == 36

\* BitSet(N): size = N / 8, one more if N % 8 > 0.
BitSetSize(N) == N \div 8 + (IF N % 8 > 0 THEN 1 ELSE 0)

\* Chains of seq_size residues of one atom each.
ChainPoints == {<<0, 0, 0>>, <<10, 0, 0>>}
ChainStructures ==
  UNION {{[groups |-> [k \in 1..n + 1 |-> k - 1], positions |-> p] :
            p \in [1..n -> ChainPoints]} : n \in 0..MaxSeqSize}

\* Three atoms cut into three residues in every way: residues of no, one
\* or several atoms.
GroupedBoundaries ==
  {g \in [1..4 -> 0..3] :
     g[1] = 0 /\ g[4] = 3 /\ \A i \in 1..3 : g[i] <= g[i + 1]}
GroupedStructures ==
  {[groups |-> g, positions |-> p] :
     g \in GroupedBoundaries, p \in [1..3 -> ChainPoints]}

\* Chains whose packed map needs more bytes than BitSet(100) holds; atom k
\* lies apart from the others when k is a multiple of the period.
LongSeqSizes == {16, 18}
LongPeriods == {1, 2, 3}
LongChains ==
  {[groups |-> [k \in 1..n + 1 |-> k - 1],
    positions |-> [k \in 1..n |-> IF k % q = 0 THEN <<10, 0, 0>>
                                  ELSE <<0, 0, 0>>]] :
     n \in LongSeqSizes, q \in LongPeriods}

\* int bits_size = (int)(seq_size * (seq_size - 1) / 2)
bits_size(seq_size) == (seq_size * (seq_size - 1)) \div 2

\* bits_size - (seq_size - group_a) * ((seq_size - group_a) - 1) / 2
\*   + group_b - group_a - 1
bit_index_FromRowStart(seq_size, group_a, group_b) ==
  bits_size(seq_size)
  - ((seq_size - group_a) * ((seq_size - group_a) - 1)) \div 2
  + group_b - group_a
bit_index(seq_size, group_a, group_b) ==
  bits_size(seq_size)
  - ((seq_size - group_a) * ((seq_size - group_a) - 1)) \div 2
  + group_b - group_a - 1

\* distance(array, i, j): powf(dx, 2) + powf(dy, 2) + powf(dz, 2)
mapper_distance_NoX(array, i, j) ==
  (array[i * 3 + 2] - array[j * 3 + 2]) * (array[i * 3 + 2] - array[j * 3 + 2])
  + (array[i * 3 + 3] - array[j * 3 + 3]) * (array[i * 3 + 3] - array[j * 3 + 3])
mapper_distance(array, i, j) ==
  (array[i * 3 + 1] - array[j * 3 + 1]) * (array[i * 3 + 1] - array[j * 3 + 1])
  + (array[i * 3 + 2] - array[j * 3 + 2]) * (array[i * 3 + 2] - array[j * 3 + 2])
  + (array[i * 3 + 3] - array[j * 3 + 3]) * (array[i * 3 + 3] - array[j * 3 + 3])

\* group_connected: some atom_i of group_a and atom_j of group_b are close.
group_connected(atom_position, start_group_index, group_a, group_b) ==
  \E atom_i \in start_group_index[group_a + 1]
                ..start_group_index[group_a + 2] - 1,
     atom_j \in start_group_index[group_b + 1]
                ..start_group_index[group_b + 2] - 1 :
    mapper_distance(atom_position, atom_i, atom_j) <= ContactThresholdSquared

\* The ContactMapper after its constructor: bit_set = new BitSet(100).
\* data holds the numbers of the bits that are 1; set_calls lists the
\* (group_a, group_b, bit_index) of the last call's set_bit calls in order,
\* packed_file is the file the last call wrote.
\* initialised counts the leading bytes of data that have been written since
\* "new unsigned char[size]", which leaves them unset.
\* for (group_a = 0; group_a < seq_size; ++group_a)
\*   for (group_b = group_a + 1; group_b < seq_size; ++group_b):
\* the pairs in the order the loops visit them.
mapper_GroupPairs(seq_size) ==
  SelectSeq([k \in 1..seq_size * seq_size |->
               <<(k - 1) \div seq_size, (k - 1) % seq_size>>],
            LAMBDA ab : ab[1] < ab[2])

\* std::memset(bit_set->data, 0, bytes_size): the bits left set.
memset_Skipped(data, bytes_size) == data
memset(data, bytes_size) == {b \in data : b >= 8 * bytes_size}

NewMapper ==
  [size |-> BitSetSize(InitialBits), data |-> {}, initialised |-> 0,
   set_calls |-> <<>>, packed_file |-> [bytes_size |-> 0, bits |-> {}]]

GenerateContactMap(m, position_array, groups_array) ==
  LET seq_size == Len(groups_array) - 1
      bytes_size == BitSetSize(bits_size(seq_size))
      fresh == m.size < bytes_size
      size == IF fresh THEN BitSetSize(bits_size(seq_size)) ELSE m.size
      \* delete bit_set; bit_set = new BitSet(bits_size)
      allocated == IF fresh THEN {} ELSE m.data
      remaining == memset(allocated, bytes_size)
      initialised == IF fresh \/ m.initialised < bytes_size
                     THEN bytes_size ELSE m.initialised
      pairs == mapper_GroupPairs(seq_size)
      connected ==
        SelectSeq(pairs,
                  LAMBDA ab : group_connected(position_array, groups_array,
                                              ab[1], ab[2]))
      set_calls ==
        [k \in 1..Len(connected) |->
           <<connected[k][1], connected[k][2],
             bit_index(seq_size, connected[k][1], connected[k][2])>>]
      data == remaining \cup {set_calls[k][3] : k \in 1..Len(set_calls)}
  IN [size |-> size, data |-> data, initialised |-> initialised,
      set_calls |-> set_calls,
      packed_file |-> [bytes_size |-> bytes_size,
                       bits |-> {b \in data : b < 8 * bytes_size}]]

\* ------------------------------------------------------------------------
\* src/mDeepFRI/CPP_lib/atoms_io.pyx : buffers of save_atoms_file
\* ------------------------------------------------------------------------
NoHeap == [malloc |-> 0, free |-> 0]

\* positions_array and groups_array come from malloc (lines 41-42); the
\* function ends after SaveAtomsFile without a call of free.
save_atoms_file_heap(h) == [h EXCEPT !.malloc = @ + 2]

\* ------------------------------------------------------------------------
\* seq2onehot (src/unnamed/part_011, lines 170-199; part_010, lines 15-44)
\* ------------------------------------------------------------------------
MaxSeqLen == 3

\* b"-DGULNTKHYWCPVSOIEFXQABZRM" as byte values.
chars ==
  <<45, 68, 71, 85, 76, 78, 84, 75, 72, 89, 87, 67, 80,
    86, 83, 79, 73, 69, 70, 88, 81, 65, 66, 90, 82, 77>>

\* Characters of the argument, as code points: "-", "D", "M", "d", "e acute".
SeqCharacters == {45, 68, 77, 100, 233}
SeqInputs == UNION {[1..n -> SeqCharacters] : n \in 0..MaxSeqLen}

\* seq.encode(): UTF-8, one byte below 128 and two bytes below 2048.
RECURSIVE encode(_)
encode(str) ==
  IF str = <<>> THEN <<>>
  ELSE LET c == Head(str)
       IN (IF c < 128 THEN <<c>>
           ELSE <<192 + (c \div 64), 128 + (c % 64)>>) \o encode(Tail(str))

\* bytes.find(byte): the lowest index holding the byte, or -1.
bytes_find_FromOne(haystack, byte) ==
  IF \E j \in 1..Len(haystack) : haystack[j] = byte
  THEN CHOOSE j \in 1..Len(haystack) :
         /\ haystack[j] = byte
         /\ \A h \in 1..j - 1 : haystack[h] # byte
  ELSE 0
bytes_find(haystack, byte) ==
  IF \E j \in 1..Len(haystack) : haystack[j] = byte
  THEN (CHOOSE j \in 1..Len(haystack) :
          /\ haystack[j] = byte
          /\ \A h \in 1..j - 1 : haystack[h] # byte) - 1
  ELSE -1

\* for i in range(seq_len): the view after rows 0 .. i - 1, or the raise.
RECURSIVE s2o_Loop(_, _, _)
s2o_Loop(seq_bytes, vocab_size, i) ==
  IF i = 0 THEN [raised |-> FALSE, onehot_view |-> <<>>]
  ELSE LET prev == s2o_Loop(seq_bytes, vocab_size, i - 1)
           j == bytes_find(chars, seq_bytes[i])
       IN IF prev.raised THEN prev
          ELSE IF j # -1
          THEN [prev EXCEPT !.onehot_view =
                  Append(@, [col \in 1..vocab_size |->
                               IF col - 1 = j THEN 1 ELSE 0])]
          ELSE [raised |-> TRUE, onehot_view |-> <<>>]

\* seq_len = len(seq) counts characters, seq_bytes[i] indexes bytes.
seq2onehot(str) ==
  LET seq_bytes == encode(str)
      vocab_size == Len(chars)
      seq_len == Len(str)
      loop == s2o_Loop(seq_bytes, vocab_size, seq_len)
  IN IF loop.raised
     THEN [NoResult EXCEPT !.error = "ValueError"]
     ELSE [NoResult EXCEPT !.onehot = loop.onehot_view,
                           !.returned = "onehot"]

\* ------------------------------------------------------------------------
\* BitSet: src/CPP_lib/bit_set.hpp (set_bit(i, value)) and
\* src/CPP_lib/atoms_file_io.h (set_bit(i)).  data is the array of
\* unsigned chars, element k of the code at position k + 1.
\* An int is kept as the set of the positions of its one bits (two's
\* complement, 32 bits), so that ~ and the conversions are what C++ computes.
\* ------------------------------------------------------------------------
BitSetBits == {3, 9}
BitSetHeaders == {"bit_set.hpp", "atoms_file_io.h"}

\* new unsigned char[size]: the bytes are not initialised.
UninitialisedBytes == {0, 165, 255}

NoBitSet == [header |-> "none", N |-> 0, size |-> 0, data |-> <<>>]

RECURSIVE TwoTo(_)
TwoTo(k) == IF k = 0 THEN 1 ELSE 2 * TwoTo(k - 1)

\* Integral promotion of an unsigned char to int.
Promote(byte) == {b \in 0..7 : (byte \div TwoTo(b)) % 2 = 1}

\* Conversion of an int to unsigned char: the low eight bits.
RECURSIVE ToUnsignedChar(_)
ToUnsignedChar(bits) ==
  LET low == bits \cap (0..7)
  IN IF low = {} THEN 0
     ELSE LET b == CHOOSE x \in low : TRUE
          IN TwoTo(b) + ToUnsignedChar(low \ {b})

\* true << k, x >> k, ~x, x & y, x | y on ints.
ShiftLeftTrue(k) == {k}
ShiftRight(bits, k) == {b - k : b \in {x \in bits : x >= k}}
Complement(bits) == (0..31) \ bits

\* BitSet(N)
BitSet(header, N, contents) ==
  [header |-> header, N |-> N, size |-> BitSetSize(N), data |-> contents]

\* Variant of set_bit that assigns the mask instead of or-ing / and-ing it.
set_bit_Assigned(data, i, value) ==
  IF value
  THEN [data EXCEPT ![i \div 8 + 1] = ToUnsignedChar(ShiftLeftTrue(i % 8))]
  ELSE [data EXCEPT ![i \div 8 + 1] =
          ToUnsignedChar(Complement(ShiftLeftTrue(i % 8)))]

\* bit_set.hpp: data[i / 8] |= true << (i % 8)   or
\*              data[i / 8] &= ~(true << (i % 8))
set_bit(data, i, value) ==
  IF value
  THEN [data EXCEPT ![i \div 8 + 1] =
          ToUnsignedChar(Promote(@) \cup ShiftLeftTrue(i % 8))]
  ELSE [data EXCEPT ![i \div 8 + 1] =
          ToUnsignedChar(Promote(@) \cap Complement(ShiftLeftTrue(i % 8)))]

\* atoms_file_io.h: set_bit(i) has no value argument and only sets.
set_bit_io(data, i) ==
  [data EXCEPT ![i \div 8 + 1] =
     ToUnsignedChar(Promote(@) \cup ShiftLeftTrue(i % 8))]

\* return (data[i / 8] >> (i % 8)) & true;
get_bit(data, i) ==
  ToUnsignedChar(ShiftRight(Promote(data[i \div 8 + 1]), i % 8) \cap {0}) # 0

\* ------------------------------------------------------------------------
\* State
\* ------------------------------------------------------------------------
VARIABLES
  pc,                         \* "idle", "prange" or "done"
  disk,                       \* the structure file as it is on disk
  pairwise,                   \* the running pairwise_sqeuclidean call
  mapper,                     \* the ContactMapper object
  seq,                        \* argument of seq2onehot
  heap,                       \* malloc and free calls so far
  bitset,                     \* the BitSet object
  op,                         \* the function called last
  query_alignment,
  target_alignment,
  sparse_target_contact_map,  \* argument of align_contact_map
  generated_contacts,
  atoms_file,                 \* the structure stored at file_path
  angstrom_contact_threshold,
  mode,                       \* argument of load_contact_map
  memory,                     \* what reads outside the buffers return
  ret                         \* what the call produced

vars == <<pc, disk, pairwise, mapper, seq, heap, bitset, op, query_alignment, target_alignment,
          sparse_target_contact_map, generated_contacts, atoms_file,
          angstrom_contact_threshold, mode, memory, ret>>

NoFile == [groups |-> <<0>>, positions |-> <<>>]
NoMemory ==
  [char |-> Residue, atom |-> <<0, 0, 0>>, int |-> 0, size_t_high |-> 0]

Init ==
  /\ pc = "idle"
  /\ disk = NoDisk
  /\ pairwise = NoPairwise
  /\ mapper = NewMapper
  /\ seq = <<>>
  /\ heap = NoHeap
  /\ bitset = NoBitSet
  /\ op = "none"
  /\ query_alignment = <<>>
  /\ target_alignment = <<>>
  /\ sparse_target_contact_map = <<>>
  /\ generated_contacts = 0
  /\ atoms_file = NoFile
  /\ angstrom_contact_threshold = 0
  /\ mode = "none"
  /\ memory = NoMemory
  /\ ret = NoResult

\* Junk is only read when the query string is longer than the target string
\* plus its terminator.
JunkChars(q, t) == IF Len(q) > Len(t) + 1 THEN Chars ELSE {Residue}

\* Values an uninitialised or out-of-bounds int can hold.
GarbageInts == {-1, 2, 5}

\* Structure files the remappers are run on: one atom per residue.
RemapPoints == {<<0, 0, 0>>, <<10, 0, 0>>}
RemapThreshold == 6
RemapFiles ==
  UNION {{[groups |-> [i \in 1..n + 1 |-> i - 1], positions |-> p] :
            p \in [1..n -> RemapPoints]} : n \in 0..MaxResidues}

NoRemapArgs ==
  /\ query_alignment' = <<>>
  /\ target_alignment' = <<>>
  /\ sparse_target_contact_map' = <<>>
  /\ generated_contacts' = 0

NoBuilderArgs ==
  /\ atoms_file' = NoFile
  /\ angstrom_contact_threshold' = 0
  /\ mode' = "none"

\* align_contact_map(query_alignment, target_alignment, sparse map, g)
Args_align_contact_map(pairs) ==
  \E qt \in pairs, m \in SparseMaps, g \in 0..MaxGenerated :
    \E junk \in JunkChars(qt[1], qt[2]) :
      /\ query_alignment' = qt[1]
      /\ target_alignment' = qt[2]
      /\ sparse_target_contact_map' = m
      /\ generated_contacts' = g
      /\ memory' = [NoMemory EXCEPT !.char = junk]
      /\ ret' = align_contact_map(qt[1], qt[2], m, g, junk)

Call_align_contact_map ==
  /\ UNCHANGED <<seq, heap, bitset>>
  /\ UNCHANGED <<pairwise, mapper>>
  /\ pc = "idle"
  /\ UNCHANGED disk
  /\ Args_align_contact_map(EqualLengthPairs)
  /\ NoBuilderArgs
  /\ op' = "align_contact_map"
  /\ pc' = "done"

Call_align_contact_map_unequal ==
  /\ UNCHANGED <<seq, heap, bitset>>
  /\ UNCHANGED <<pairwise, mapper>>
  /\ pc = "idle"
  /\ UNCHANGED disk
  /\ Args_align_contact_map(UnequalLengthPairs)
  /\ NoBuilderArgs
  /\ op' = "align_contact_map"
  /\ pc' = "done"

Call_LoadDenseContactMap ==
  /\ UNCHANGED <<seq, heap, bitset>>
  /\ UNCHANGED <<pairwise, mapper>>
  /\ pc = "idle"
  /\ UNCHANGED disk
  /\ \E file \in Structures, threshold \in Thresholds, junk_atom \in JunkAtoms :
       /\ atoms_file' = file
       /\ angstrom_contact_threshold' = threshold
       /\ memory' = [NoMemory EXCEPT !.atom = junk_atom]
       /\ ret' = LoadDenseContactMap(file, threshold, junk_atom)
  /\ mode' = "none"
  /\ NoRemapArgs
  /\ op' = "LoadDenseContactMap"
  /\ pc' = "done"

Call_LoadSparseContactMap ==
  /\ UNCHANGED <<seq, heap, bitset>>
  /\ UNCHANGED <<pairwise, mapper>>
  /\ pc = "idle"
  /\ UNCHANGED disk
  /\ \E file \in Structures, threshold \in Thresholds, junk_atom \in JunkAtoms :
       /\ atoms_file' = file
       /\ angstrom_contact_threshold' = threshold
       /\ memory' = [NoMemory EXCEPT !.atom = junk_atom]
       /\ ret' = LoadSparseContactMap(file, threshold, junk_atom)
  /\ mode' = "none"
  /\ NoRemapArgs
  /\ op' = "LoadSparseContactMap"
  /\ pc' = "done"

Call_LoadArrayContactMap ==
  /\ UNCHANGED <<seq, heap, bitset>>
  /\ UNCHANGED <<pairwise, mapper>>
  /\ pc = "idle"
  /\ UNCHANGED disk
  /\ \E file \in Structures, threshold \in Thresholds :
       /\ atoms_file' = file
       /\ angstrom_contact_threshold' = threshold
       /\ ret' = LoadArrayContactMap(file, threshold)
  /\ memory' = NoMemory
  /\ mode' = "none"
  /\ NoRemapArgs
  /\ op' = "LoadArrayContactMap"
  /\ pc' = "done"

Call_LoadSparseContactMap_library ==
  /\ UNCHANGED <<seq, heap, bitset>>
  /\ UNCHANGED <<pairwise, mapper>>
  /\ pc = "idle"
  /\ UNCHANGED disk
  /\ \E file \in Structures, threshold \in Thresholds :
       /\ atoms_file' = file
       /\ angstrom_contact_threshold' = threshold
       /\ ret' = LoadSparseContactMap_library(file, threshold)
  /\ memory' = NoMemory
  /\ mode' = "none"
  /\ NoRemapArgs
  /\ op' = "LoadSparseContactMap_library"
  /\ pc' = "done"

Call_load_contact_map ==
  /\ UNCHANGED <<seq, heap, bitset>>
  /\ UNCHANGED <<pairwise, mapper>>
  /\ pc = "idle"
  /\ UNCHANGED disk
  /\ \E file \in Structures, threshold \in Thresholds,
        m \in {"matrix", "sparse"} :
       /\ atoms_file' = file
       /\ angstrom_contact_threshold' = threshold
       /\ mode' = m
       /\ ret' = load_contact_map(file, threshold, m)
  /\ memory' = NoMemory
  /\ NoRemapArgs
  /\ op' = "load_contact_map"
  /\ pc' = "done"

\* LoadAlignedContactMap(file_path, threshold, query_alignment,
\*                       target_alignment, generated_contacts)
Args_LoadAlignedContactMap(pairs) ==
  \E file \in RemapFiles, qt \in pairs, g \in 0..MaxGenerated :
    \E junk \in JunkChars(qt[1], qt[2]), junk_atom \in JunkAtoms,
       garbage \in GarbageInts :
      /\ atoms_file' = file
      /\ query_alignment' = qt[1]
      /\ target_alignment' = qt[2]
      /\ generated_contacts' = g
      /\ memory' = [NoMemory EXCEPT !.char = junk, !.atom = junk_atom,
                                   !.int = garbage]
      /\ ret' = LoadAlignedContactMap(file, RemapThreshold, qt[1], qt[2], g,
                                      junk, junk_atom, garbage)

Call_LoadAlignedContactMap ==
  /\ UNCHANGED <<seq, heap, bitset>>
  /\ UNCHANGED <<pairwise, mapper>>
  /\ pc = "idle"
  /\ UNCHANGED disk
  /\ Args_LoadAlignedContactMap(EqualLengthPairs)
  /\ angstrom_contact_threshold' = RemapThreshold
  /\ sparse_target_contact_map' = <<>>
  /\ mode' = "none"
  /\ op' = "LoadAlignedContactMap"
  /\ pc' = "done"

Call_LoadAlignedContactMap_unequal ==
  /\ UNCHANGED <<seq, heap, bitset>>
  /\ UNCHANGED <<pairwise, mapper>>
  /\ pc = "idle"
  /\ UNCHANGED disk
  /\ Args_LoadAlignedContactMap(UnequalLengthPairs)
  /\ angstrom_contact_threshold' = RemapThreshold
  /\ sparse_target_contact_map' = <<>>
  /\ mode' = "none"
  /\ op' = "LoadAlignedContactMap"
  /\ pc' = "done"

Call_LoadAlignedContactMap_library ==
  /\ UNCHANGED <<seq, heap, bitset>>
  /\ UNCHANGED <<pairwise, mapper>>
  /\ pc = "idle"
  /\ UNCHANGED disk
  /\ \E file \in RemapFiles, qt \in EqualLengthPairs, g \in 0..MaxGenerated :
       \E garbage \in GarbageInts :
         /\ atoms_file' = file
         /\ query_alignment' = qt[1]
         /\ target_alignment' = qt[2]
         /\ generated_contacts' = g
         /\ memory' = [NoMemory EXCEPT !.int = garbage]
         /\ ret' = LoadAlignedContactMap_library(file, RemapThreshold, qt[1],
                                                 qt[2], g, Residue, garbage)
  /\ angstrom_contact_threshold' = RemapThreshold
  /\ sparse_target_contact_map' = <<>>
  /\ mode' = "none"
  /\ op' = "LoadAlignedContactMap_library"
  /\ pc' = "done"

Call_load_aligned_contact_map ==
  /\ UNCHANGED <<seq, heap, bitset>>
  /\ UNCHANGED <<pairwise, mapper>>
  /\ pc = "idle"
  /\ UNCHANGED disk
  /\ \E file \in RemapFiles, qt \in EqualLengthPairs, g \in 0..MaxGenerated :
       /\ atoms_file' = file
       /\ query_alignment' = qt[1]
       /\ target_alignment' = qt[2]
       /\ generated_contacts' = g
       /\ ret' = load_aligned_contact_map(file, RemapThreshold, qt[1], qt[2], g)
  /\ angstrom_contact_threshold' = RemapThreshold
  /\ sparse_target_contact_map' = <<>>
  /\ memory' = NoMemory
  /\ mode' = "none"
  /\ op' = "load_aligned_contact_map"
  /\ pc' = "done"

Return ==
  /\ seq' = <<>>
  /\ UNCHANGED <<heap, bitset>>
  /\ pairwise' = NoPairwise
  /\ UNCHANGED mapper
  /\ pc = "done"
  /\ UNCHANGED disk
  /\ pc' = "idle"
  /\ op' = "none"
  /\ NoRemapArgs
  /\ NoBuilderArgs
  /\ memory' = NoMemory
  /\ ret' = NoResult

\* ---------------------------------------------------- Structure Store
\* The writers open the file with std::ios::out, which discards what the
\* file held, so a write is modelled once, onto the path without a file.
\* What the writers leave in the state besides the file:
NoContactArgs ==
  /\ NoRemapArgs
  /\ angstrom_contact_threshold' = 0
  /\ mode' = "none"
  /\ memory' = NoMemory
  /\ ret' = NoResult

Call_save_atoms_file ==
  /\ heap' = save_atoms_file_heap(heap)
  /\ UNCHANGED <<seq, bitset>>
  /\ UNCHANGED <<pairwise, mapper>>
  /\ pc = "idle"
  /\ disk.kind = "none"
  /\ \E s \in Structures :
       /\ atoms_file' = s
       /\ disk' = save_atoms_file(Flatten(s.positions), s.groups)
  /\ NoContactArgs
  /\ op' = "save_atoms_file"
  /\ pc' = "done"

Call_SaveAtomsFile_library ==
  /\ UNCHANGED <<seq, heap, bitset>>
  /\ UNCHANGED <<pairwise, mapper>>
  /\ pc = "idle"
  /\ disk.kind = "none"
  /\ \E s \in Structures :
       /\ atoms_file' = s
       /\ disk' = SaveAtomsFile_library(Flatten(s.positions), s.groups)
  /\ NoContactArgs
  /\ op' = "SaveAtomsFile_library"
  /\ pc' = "done"

Call_SaveAtomsFile_text ==
  /\ UNCHANGED <<seq, heap, bitset>>
  /\ UNCHANGED <<pairwise, mapper>>
  /\ pc = "idle"
  /\ disk.kind = "none"
  /\ \E s \in Structures :
       /\ atoms_file' = s
       /\ disk' = SaveAtomsFile_text(Flatten(s.positions), s.groups)
  /\ NoContactArgs
  /\ op' = "SaveAtomsFile_text"
  /\ pc' = "done"

\* The file loses its tail (an interrupted copy, a full disk): any number of
\* whole words from the end.
Truncate ==
  /\ UNCHANGED <<seq, heap, bitset>>
  /\ UNCHANGED <<pairwise, mapper>>
  /\ pc = "idle"
  /\ disk.kind = "binary"
  /\ \E k \in 0..Len(disk.words) - 1 :
       disk' = [disk EXCEPT !.words = SubSeq(@, 1, k), !.bytes = 4 * k]
  /\ UNCHANGED <<pc, op, query_alignment, target_alignment,
                 sparse_target_contact_map, generated_contacts, atoms_file,
                 angstrom_contact_threshold, mode, memory, ret>>

Call_LoadAtomsFile_read ==
  /\ UNCHANGED <<seq, heap, bitset>>
  /\ UNCHANGED <<pairwise, mapper>>
  /\ pc = "idle"
  /\ disk.kind # "text"
  /\ UNCHANGED disk
  /\ \E garbage \in UninitialisedWords :
       /\ memory' = [NoMemory EXCEPT !.int = garbage]
       /\ ret' = LoadAtomsFile_read(disk.words, garbage)
  /\ NoRemapArgs
  /\ NoBuilderArgs
  /\ op' = "LoadAtomsFile_read"
  /\ pc' = "done"

Call_LoadAtomsFile_size_t ==
  /\ UNCHANGED <<seq, heap, bitset>>
  /\ UNCHANGED <<pairwise, mapper>>
  /\ pc = "idle"
  /\ disk.kind # "text"
  /\ UNCHANGED disk
  /\ \E garbage \in UninitialisedWords, high_garbage \in UninitialisedWords :
       /\ memory' = [NoMemory EXCEPT !.int = garbage,
                                     !.size_t_high = high_garbage]
       /\ ret' = LoadAtomsFile_size_t(disk, garbage, high_garbage)
  /\ NoRemapArgs
  /\ NoBuilderArgs
  /\ op' = "LoadAtomsFile_size_t"
  /\ pc' = "done"

Call_load_atoms_file ==
  /\ UNCHANGED <<seq, heap, bitset>>
  /\ UNCHANGED <<pairwise, mapper>>
  /\ pc = "idle"
  /\ disk.kind # "text"
  /\ UNCHANGED disk
  /\ ret' = load_atoms_file(disk)
  /\ memory' = NoMemory
  /\ NoRemapArgs
  /\ NoBuilderArgs
  /\ op' = "load_atoms_file"
  /\ pc' = "done"

\* The writers, the readers and the truncation of the structure file.
\* LoadAlignedContactMap(file_path, ...) where file_path is the path of the
\* Structure Store: the file is there once a writer has run.
Call_LoadAlignedContactMap_path ==
  /\ UNCHANGED <<seq, heap, bitset>>
  /\ UNCHANGED <<pairwise, mapper>>
  /\ pc = "idle"
  /\ UNCHANGED disk
  /\ \E qt \in EqualLengthPairs, g \in 0..MaxGenerated :
       \E junk_atom \in JunkAtoms, garbage \in GarbageInts,
          outcome \in IF exists(disk) THEN {"size 0"} ELSE NullOutcomes :
         /\ query_alignment' = qt[1]
         /\ target_alignment' = qt[2]
         /\ generated_contacts' = g
         /\ memory' = [NoMemory EXCEPT !.atom = junk_atom, !.int = garbage]
         /\ ret' = LoadAlignedContactMap_path(disk, RemapThreshold, qt[1],
                                              qt[2], g, Residue, junk_atom,
                                              garbage, outcome)
  /\ atoms_file' = IF exists(disk) THEN StructureOf(disk) ELSE NoFile
  /\ angstrom_contact_threshold' = RemapThreshold
  /\ sparse_target_contact_map' = <<>>
  /\ mode' = "none"
  /\ op' = "LoadAlignedContactMap"
  /\ pc' = "done"

\* ------------------------------------------------- pairwise_sqeuclidean
\* cpdef pairwise_sqeuclidean(float[:, ::1] X), contact_map_utils.pyx: the
\* call allocates D and starts the threads of the prange.
Call_pairwise_sqeuclidean ==
  /\ UNCHANGED <<seq, heap, bitset>>
  /\ pc = "idle"
  /\ \E X \in Matrices, T \in 1..MaxThreads : pairwise' = sq_Start(X, T)
  /\ NoContactArgs
  /\ atoms_file' = NoFile
  /\ op' = "pairwise_sqeuclidean"
  /\ pc' = "prange"
  /\ UNCHANGED <<disk, mapper>>

\* What one step of a thread leaves alone.
sq_StepFrame ==
  UNCHANGED <<pc, disk, mapper, op, query_alignment, target_alignment,
              sparse_target_contact_map, generated_contacts, atoms_file,
              angstrom_contact_threshold, mode, memory, ret>>

Compute ==
  /\ UNCHANGED <<seq, heap, bitset>>
  /\ pc = "prange"
  /\ \E t \in 1..Len(pairwise.threads) :
       /\ pairwise.threads[t].step = "compute"
       /\ pairwise' = sq_Compute(pairwise, t)
  /\ sq_StepFrame

Store ==
  /\ UNCHANGED <<seq, heap, bitset>>
  /\ pc = "prange"
  /\ \E t \in 1..Len(pairwise.threads) :
       /\ pairwise.threads[t].step = "store"
       /\ pairwise' = sq_Store(pairwise, t)
  /\ sq_StepFrame

StoreMirror ==
  /\ UNCHANGED <<seq, heap, bitset>>
  /\ pc = "prange"
  /\ \E t \in 1..Len(pairwise.threads) :
       /\ pairwise.threads[t].step = "store_mirror"
       /\ pairwise' = sq_StoreMirror(pairwise, t)
  /\ sq_StepFrame

\* The end of the prange: every thread has finished; return np.asarray(D).
Join ==
  /\ UNCHANGED <<seq, heap, bitset>>
  /\ pc = "prange"
  /\ \A t \in 1..Len(pairwise.threads) :
       pairwise.threads[t].step = "finished"
  /\ pc' = "done"
  /\ UNCHANGED <<disk, pairwise, mapper, op, query_alignment,
                 target_alignment, sparse_target_contact_map,
                 generated_contacts, atoms_file, angstrom_contact_threshold,
                 mode, memory, ret>>

\* cpdef pairwise_sqeuclidean(float[:, ::1] X), alignment_utils.pyx.
Call_pairwise_sqeuclidean_sequential ==
  /\ UNCHANGED <<seq, heap, bitset>>
  /\ pc = "idle"
  /\ \E X \in Matrices : pairwise' = pairwise_sqeuclidean_sequential(X)
  /\ NoContactArgs
  /\ atoms_file' = NoFile
  /\ op' = "pairwise_sqeuclidean_sequential"
  /\ pc' = "done"
  /\ UNCHANGED <<disk, mapper>>

NextPairwise ==
  \/ Call_pairwise_sqeuclidean
  \/ Compute
  \/ Store
  \/ StoreMirror
  \/ Join
  \/ Call_pairwise_sqeuclidean_sequential
  \/ Return

SpecPairwise == Init /\ [][NextPairwise]_vars

\* -------------------------------------------------------- ContactMapper
\* generate_contact_map(position_array, groups_array, name)
Call_GenerateContactMap ==
  /\ UNCHANGED <<seq, heap, bitset>>
  /\ pc = "idle"
  /\ \E s \in ChainStructures :
       /\ atoms_file' = s
       /\ mapper' = GenerateContactMap(mapper, Flatten(s.positions), s.groups)
  /\ NoContactArgs
  /\ op' = "GenerateContactMap"
  /\ pc' = "done"
  /\ UNCHANGED <<disk, pairwise>>

\* The same call on structures with residues of several or no atoms and on
\* chains long enough to make the mapper replace its BitSet.
Call_GenerateContactMap_grouped ==
  /\ UNCHANGED <<seq, heap, bitset>>
  /\ pc = "idle"
  /\ \E s \in GroupedStructures \cup LongChains :
       /\ atoms_file' = s
       /\ mapper' = GenerateContactMap(mapper, Flatten(s.positions), s.groups)
  /\ NoContactArgs
  /\ op' = "GenerateContactMap"
  /\ pc' = "done"
  /\ UNCHANGED <<disk, pairwise>>

\* ----------------------------------------------------------- BitSet
BitSetFrame ==
  /\ NoRemapArgs
  /\ NoBuilderArgs
  /\ memory' = NoMemory
  /\ pc' = "done"
  /\ UNCHANGED <<disk, pairwise, mapper, seq, heap>>

Call_BitSet ==
  /\ pc = "idle"
  /\ bitset.header = "none"
  /\ \E header \in BitSetHeaders, N \in BitSetBits :
       \E contents \in [1..BitSetSize(N) -> UninitialisedBytes] :
         bitset' = BitSet(header, N, contents)
  /\ ret' = NoResult
  /\ op' = "BitSet"
  /\ BitSetFrame

Call_BitSet_destructor ==
  /\ pc = "idle"
  /\ bitset.header # "none"
  /\ bitset' = NoBitSet
  /\ ret' = NoResult
  /\ op' = "~BitSet"
  /\ BitSetFrame

Call_set_bit ==
  /\ pc = "idle"
  /\ bitset.header = "bit_set.hpp"
  /\ \E i \in 0..bitset.N - 1, value \in BOOLEAN :
       /\ bitset' = [bitset EXCEPT !.data = set_bit(@, i, value)]
       /\ ret' = [NoResult EXCEPT
                    !.bit_call = [i |-> i, value |-> value,
                                  before |-> bitset.data]]
  /\ op' = "set_bit"
  /\ BitSetFrame

Call_set_bit_io ==
  /\ pc = "idle"
  /\ bitset.header = "atoms_file_io.h"
  /\ \E i \in 0..bitset.N - 1 :
       /\ bitset' = [bitset EXCEPT !.data = set_bit_io(@, i)]
       /\ ret' = [NoResult EXCEPT
                    !.bit_call = [i |-> i, value |-> TRUE,
                                  before |-> bitset.data]]
  /\ op' = "set_bit"
  /\ BitSetFrame

NextBitSet ==
  \/ Call_BitSet
  \/ Call_set_bit
  \/ Call_set_bit_io
  \/ Call_BitSet_destructor
  \/ Return

SpecBitSet == Init /\ [][NextBitSet]_vars

\* ----------------------------------------------------------- seq2onehot
Call_seq2onehot ==
  /\ pc = "idle"
  /\ \E str \in SeqInputs :
       /\ seq' = str
       /\ ret' = seq2onehot(str)
  /\ NoRemapArgs
  /\ NoBuilderArgs
  /\ memory' = NoMemory
  /\ op' = "seq2onehot"
  /\ pc' = "done"
  /\ UNCHANGED <<disk, pairwise, mapper, heap, bitset>>

NextOnehot ==
  \/ Call_seq2onehot
  \/ Return

SpecOnehot == Init /\ [][NextOnehot]_vars

NextPacked ==
  \/ Call_GenerateContactMap_grouped
  \/ Return

SpecPacked == Init /\ [][NextPacked]_vars

NextMapper ==
  \/ Call_GenerateContactMap
  \/ Return

SpecMapper == Init /\ [][NextMapper]_vars

NextPath ==
  \/ Call_save_atoms_file
  \/ Call_LoadAlignedContactMap_path
  \/ Return

SpecPath == Init /\ [][NextPath]_vars

NextStore ==
  \/ Call_save_atoms_file
  \/ Call_SaveAtomsFile_library
  \/ Call_SaveAtomsFile_text
  \/ Truncate
  \/ Call_LoadAtomsFile_read
  \/ Call_LoadAtomsFile_size_t
  \/ Call_load_atoms_file
  \/ Return

SpecStore == Init /\ [][NextStore]_vars

\* The calls of the contact-map functions.  The store's actions are in
\* NextStore: the builders below take the structure a well-formed file
\* holds, so the two parts share no state.
Next ==
  \/ Call_align_contact_map
  \/ Call_align_contact_map_unequal
  \/ Call_LoadAlignedContactMap_unequal
  \/ Call_LoadDenseContactMap
  \/ Call_LoadSparseContactMap
  \/ Call_LoadArrayContactMap
  \/ Call_LoadSparseContactMap_library
  \/ Call_load_contact_map
  \/ Call_LoadAlignedContactMap
  \/ Call_LoadAlignedContactMap_library
  \/ Call_load_aligned_contact_map
  \/ Return

Spec == Init /\ [][Next]_vars

\* ------------------------------------------------------------------------
\* Specifications over parts of the interface
\* ------------------------------------------------------------------------

\* align_contact_map on equal-length alignments.
NextAlign ==
  \/ Call_align_contact_map
  \/ Return

SpecAlign == Init /\ [][NextAlign]_vars

\* The functions that return a dense map from well-formed arguments.
NextDense ==
  \/ Call_align_contact_map
  \/ Call_LoadDenseContactMap
  \/ Call_load_contact_map
  \/ Return

SpecDense == Init /\ [][NextDense]_vars

\* The two current remappers on equal-length alignments.
NextRemap ==
  \/ Call_align_contact_map
  \/ Call_LoadAlignedContactMap
  \/ Return

SpecRemap == Init /\ [][NextRemap]_vars

\* All four remappers on equal-length alignments.
NextRemapAll ==
  \/ Call_align_contact_map
  \/ Call_LoadAlignedContactMap
  \/ Call_LoadAlignedContactMap_library
  \/ Call_load_aligned_contact_map
  \/ Return

SpecRemapAll == Init /\ [][NextRemapAll]_vars

\* The current remappers on alignments of unequal lengths.
NextUnequal ==
  \/ Call_align_contact_map_unequal
  \/ Call_LoadAlignedContactMap_unequal
  \/ Return

SpecUnequal == Init /\ [][NextUnequal]_vars

\* The builders.
NextBuild ==
  \/ Call_LoadDenseContactMap
  \/ Call_LoadSparseContactMap
  \/ Call_LoadArrayContactMap
  \/ Call_LoadSparseContactMap_library
  \/ Call_load_contact_map
  \/ Return

SpecBuild == Init /\ [][NextBuild]_vars

\* ------------------------------------------------------------------------
\* Vocabulary of the properties
\* ------------------------------------------------------------------------
Done(name) == pc = "done" /\ op = name

Indices(n) == 0..n - 1

IsSet(i, j) == <<i, j>> \in ret.cells

\* Number of non-gap characters of an alignment string.
NonGapCount(s) == Cardinality({k \in 1..Len(s) : s[k] # GAP})

NoGap(s) == \A k \in 1..Len(s) : s[k] # GAP

ReturnsDenseMap ==
  \/ Done("align_contact_map")
  \/ Done("LoadDenseContactMap")
  \/ Done("LoadAlignedContactMap")
  \/ Done("load_contact_map") /\ mode = "matrix"

\* ------------------------------------------------------------------------
\* C1: every dense map the builder (LoadDenseContactMap, load_contact_map)
\* or the remapper (align_contact_map, LoadAlignedContactMap) returns is
\* symmetric: out[i][j] = out[j][i] for all i, j in [0, n).
\* ------------------------------------------------------------------------
C1_Symmetric ==
  ReturnsDenseMap =>
    \A i \in Indices(ret.size), j \in Indices(ret.size) :
      IsSet(i, j) <=> IsSet(j, i)

\* ------------------------------------------------------------------------
\* C2: every dense map returned by align_contact_map, load_contact_map or
\* LoadDenseContactMap has out[i][i] set for every i in [0, n), also for a
\* residue without atoms and for an inserted query residue.
\* ------------------------------------------------------------------------
C2_Diagonal ==
  (\/ Done("align_contact_map")
   \/ Done("LoadDenseContactMap")
   \/ Done("load_contact_map") /\ mode = "matrix")
  => \A i \in Indices(ret.size) : IsSet(i, i)

\* A three-residue structure whose middle residue has no atoms went through
\* the dense builder and its diagonal cell is set.
C2_Witness ==
  /\ Done("LoadDenseContactMap")
  /\ atoms_file.groups = <<0, 1, 1, 2>>
  /\ ret.size = 3
  /\ IsSet(1, 1)

\* ------------------------------------------------------------------------
\* C3: in the build step of align_contact_map and LoadAlignedContactMap
\* every store into the output matrix uses a row index and a column index
\* in [0, query_index).
\* ------------------------------------------------------------------------
C3_WritesInRange ==
  (Done("align_contact_map") \/ Done("LoadAlignedContactMap"))
  => \A k \in 1..Len(ret.writes) :
       /\ ret.writes[k][1] \in Indices(ret.size)
       /\ ret.writes[k][2] \in Indices(ret.size)

\* ------------------------------------------------------------------------
\* C4: for equal-length alignment strings align_contact_map returns a square
\* matrix whose side is the number of non-gap characters of query_alignment,
\* whatever the target alignment and the sparse target map are.
\* ------------------------------------------------------------------------
C4_SideIsQueryLength ==
  (Done("align_contact_map") /\ Len(query_alignment) = Len(target_alignment))
  => /\ ret.returned = "output_map"
     /\ ret.size = NonGapCount(query_alignment)
     /\ ret.cells \subseteq Indices(ret.size) \X Indices(ret.size)

\* A call whose query has one gap column and one insertion column returned
\* a 1 x 1 map.
C4_Witness ==
  /\ Done("align_contact_map")
  /\ query_alignment = <<GAP, Residue>>
  /\ target_alignment = <<Residue, GAP>>
  /\ sparse_target_contact_map # <<>>
  /\ ret.size = 1

\* ------------------------------------------------------------------------
\* C5: if query_alignment = target_alignment without a gap, of length L, and
\* every index of the sparse target map is in [0, L), the remapper returns
\* the target's dense map: out[i][j] is set iff i = j or (i, j) or (j, i) is
\* a pair of the sparse target map, for every generated_contacts.
\* ------------------------------------------------------------------------
IdentityAlignment ==
  /\ query_alignment = target_alignment
  /\ NoGap(query_alignment)

IndicesBelow(pairs, n) ==
  \A k \in 1..Len(pairs) : pairs[k][1] \in Indices(n) /\ pairs[k][2] \in Indices(n)

\* The sparse target map the remapper worked on: the argument of
\* align_contact_map, the list LoadAlignedContactMap got from the builder.
C5_IdentityCase ==
  ((Done("align_contact_map") \/ Done("LoadAlignedContactMap"))
   /\ IdentityAlignment
   /\ IndicesBelow(ret.sparse, Len(query_alignment)))
  => /\ ret.size = Len(query_alignment)
     /\ \A i \in Indices(ret.size), j \in Indices(ret.size) :
          IsSet(i, j) <=>
            \/ i = j
            \/ \E k \in 1..Len(ret.sparse) :
                 ret.sparse[k] = <<i, j>> \/ ret.sparse[k] = <<j, i>>

\* An identity alignment of two residues with the target contact (0, 1) and
\* generated_contacts = 2 went through the remapper.
C5_Witness ==
  /\ Done("align_contact_map")
  /\ IdentityAlignment
  /\ Len(query_alignment) = 2
  /\ generated_contacts = 2
  /\ ret.sparse = << <<0, 1>> >>
  /\ IsSet(0, 1) /\ IsSet(1, 0)

\* ------------------------------------------------------------------------
\* C6: for every pair (i, j) of the sparse target map, with
\* qi = target_to_query[i] and qj = target_to_query[j]: when both are mapped
\* out[qi][qj] and out[qj][qi] are set (the pair is never rejected); when one
\* is -1 the pair sets no cell.  Checked for align_contact_map and
\* load_aligned_contact_map.
\* ------------------------------------------------------------------------

\* Number of target residues the column loop consumes: a column with a query
\* gap, or with a residue on both sides.
TargetResidues ==
  Cardinality({k \in 1..Len(query_alignment) :
                 query_alignment[k] = GAP \/ target_alignment[k] # GAP})

C6_Translation ==
  ((Done("align_contact_map") \/ Done("load_aligned_contact_map"))
   /\ Len(query_alignment) = Len(target_alignment)
   /\ ret.error = "none")
  => /\ \A k \in 1..Len(ret.sparse) :
          LET i == ret.sparse[k][1]
              j == ret.sparse[k][2]
          IN (i \in Indices(TargetResidues) /\ j \in Indices(TargetResidues))
             => LET qi == ret.target_to_query[i + 1]
                    qj == ret.target_to_query[j + 1]
                IN (qi # -1 /\ qj # -1) => (IsSet(qi, qj) /\ IsSet(qj, qi))
     /\ \A w \in 1..Len(ret.writes) :
          ret.writes[w][1] \in Indices(ret.size)
          /\ ret.writes[w][2] \in Indices(ret.size)

\* ------------------------------------------------------------------------
\* C7: for every insertion column (query residue, target gap) with query
\* index q and every j in 1..generated_contacts, the returned map has
\* out[q-j][q] and out[q][q-j] set when q-j >= 0, and out[q+j][q] and
\* out[q][q+j] set when q+j < query_index.  Checked for align_contact_map,
\* LoadAlignedContactMap of library.cpp and load_aligned_contact_map.
\* ------------------------------------------------------------------------

\* Query index at 1-based column k: the non-gap query characters before it.
QueryIndexAt(k) == NonGapCount(SubSeq(query_alignment, 1, k - 1))

IsInsertion(k) == query_alignment[k] # GAP /\ target_alignment[k] = GAP

C7_GeneratedContacts ==
  ((\/ Done("align_contact_map")
    \/ Done("LoadAlignedContactMap_library")
    \/ Done("load_aligned_contact_map"))
   /\ Len(query_alignment) = Len(target_alignment)
   /\ ret.error = "none")
  => \A k \in 1..Len(query_alignment) :
       IsInsertion(k) =>
         \A j \in 1..generated_contacts :
           LET q == QueryIndexAt(k)
           IN /\ (q - j >= 0) => (IsSet(q - j, q) /\ IsSet(q, q - j))
              /\ (q + j < ret.size) => (IsSet(q + j, q) /\ IsSet(q, q + j))

\* ------------------------------------------------------------------------
\* C8: when query_alignment and target_alignment differ in length the
\* remapper rejects the call with InvalidAlignment before it processes any
\* column: no column is read, no map is returned.
\* ------------------------------------------------------------------------
C8_RejectsUnequalLengths ==
  ((Done("align_contact_map") \/ Done("LoadAlignedContactMap"))
   /\ Len(query_alignment) # Len(target_alignment))
  => /\ ret.error = "InvalidAlignment"
     /\ ret.cols = 0
     /\ ret.returned = "none"

\* ------------------------------------------------------------------------
\* C9: for every structure and threshold > 0 the builder marks residues
\* a < b connected iff an atom of group a and an atom of group b are at
\* squared Euclidean distance <= threshold^2.  Checked for load_contact_map
\* and LoadDenseContactMap.
\* ------------------------------------------------------------------------
SquaredDistance(p, q) ==
  (p[1] - q[1]) * (p[1] - q[1]) + (p[2] - q[2]) * (p[2] - q[2])
  + (p[3] - q[3]) * (p[3] - q[3])

GroupAtoms(file, group) == file.groups[group + 1]..file.groups[group + 2] - 1

InContact(file, a, b, threshold) ==
  \E atom_a \in GroupAtoms(file, a), atom_b \in GroupAtoms(file, b) :
    SquaredDistance(file.positions[atom_a + 1], file.positions[atom_b + 1])
      <= threshold * threshold

C9_ContactSemantics ==
  (\/ Done("load_contact_map") /\ mode = "matrix"
   \/ Done("LoadDenseContactMap"))
  => /\ ret.size = Len(atoms_file.groups) - 1
     /\ \A a \in Indices(ret.size), b \in Indices(ret.size) :
          a < b => (IsSet(a, b) <=>
                      InContact(atoms_file, a, b, angstrom_contact_threshold))

\* ------------------------------------------------------------------------
\* C10: for the same structure file and threshold, the dense map built from
\* the sparse map (diagonal, then [i][j] and [j][i] for every sparse pair)
\* equals, cell for cell, the map of the dense builder.  Checked for the
\* builder pairs of load_contact_maps.cpp and of library.cpp.
\* ------------------------------------------------------------------------
DenseFromSparse(sparse, n) ==
  {<<i, i>> : i \in Indices(n)}
  \cup {sparse[k] : k \in 1..Len(sparse)}
  \cup {<<sparse[k][2], sparse[k][1]>> : k \in 1..Len(sparse)}

C10_SparseDenseEquivalence ==
  /\ Done("LoadDenseContactMap") =>
       DenseFromSparse(LoadSparseContactMap(atoms_file,
                                            angstrom_contact_threshold,
                                            memory.atom).sparse,
                       ret.size) = ret.cells
  /\ Done("LoadArrayContactMap") =>
       DenseFromSparse(LoadSparseContactMap_library(
                         atoms_file, angstrom_contact_threshold).sparse,
                       ret.size) = ret.cells

\* ------------------------------------------------------------------------
\* C11: threshold monotonicity.  For a structure and thresholds
\* 0 < t1 <= t2, every residue pair of the contact set built with t1 is in
\* the contact set built with t2.  The state holds the call with t1; the
\* call with t2 is a second run of the builder on the same file, with
\* whatever its own out-of-buffer reads return.
\* ------------------------------------------------------------------------
PairSet(sparse) == {sparse[k] : k \in 1..Len(sparse)}

C11_ThresholdMonotone ==
  /\ Done("LoadSparseContactMap") =>
       \A t2 \in Thresholds, junk_atom \in JunkAtoms :
         angstrom_contact_threshold <= t2
         => PairSet(ret.sparse)
              \subseteq PairSet(LoadSparseContactMap(atoms_file, t2,
                                                     junk_atom).sparse)
  /\ Done("load_contact_map") =>
       \A t2 \in Thresholds :
         angstrom_contact_threshold <= t2
         => LET larger == load_contact_map(atoms_file, t2, mode)
            IN /\ ret.cells \subseteq larger.cells
               /\ PairSet(ret.sparse) \subseteq PairSet(larger.sparse)

\* ------------------------------------------------------------------------
\* C12: every pair (i, j) of a sparse contact map returned by a builder has
\* 0 <= i < j < residue_count (no diagonal, no lower triangle, no atom
\* index, no placeholder) and no pair appears twice.
\* ------------------------------------------------------------------------
C12_SparseEntries ==
  (\/ Done("LoadSparseContactMap")
   \/ Done("LoadSparseContactMap_library")
   \/ Done("load_contact_map") /\ mode = "sparse")
  => /\ \A k \in 1..Len(ret.sparse) :
          /\ 0 <= ret.sparse[k][1]
          /\ ret.sparse[k][1] < ret.sparse[k][2]
          /\ ret.sparse[k][2] < Len(atoms_file.groups) - 1
     /\ \A k \in 1..Len(ret.sparse), l \in 1..Len(ret.sparse) :
          ret.sparse[k] = ret.sparse[l] => k = l

\* ------------------------------------------------------------------------
\* C13: a residue with zero atoms (two equal consecutive group boundaries)
\* is connected to no other residue, and it keeps its row and column: the
\* side of the dense map is count - 1 and every cell (b, c), b < c, is set
\* iff the builder's distance test passes for an atom of group b and an atom
\* of group c, the groups taken at their own boundaries.
\* ------------------------------------------------------------------------
IsEmptyGroup(file, a) == file.groups[a + 1] = file.groups[a + 2]

\* The distance test the builder of the current call applies to atom pairs.
BuilderClose ==
  IF op = "LoadDenseContactMap"
  THEN Close_cpp(atoms_file, angstrom_contact_threshold, memory.atom)
  ELSE Close_pyx(atoms_file, angstrom_contact_threshold)

C13_EmptyResidue ==
  (\/ Done("LoadDenseContactMap")
   \/ Done("load_contact_map") /\ mode = "matrix")
  => /\ ret.size = Len(atoms_file.groups) - 1
     /\ \A a \in Indices(ret.size), b \in Indices(ret.size) :
          (IsEmptyGroup(atoms_file, a) /\ a # b)
          => (~IsSet(a, b) /\ ~IsSet(b, a))
     /\ \A b \in Indices(ret.size), c \in Indices(ret.size) :
          b < c =>
            (IsSet(b, c) <=>
               \E atom_b \in GroupAtoms(atoms_file, b),
                  atom_c \in GroupAtoms(atoms_file, c) :
                 BuilderClose[<<atom_b, atom_c>>])

\* The dense builder ran on three residues whose middle one has no atoms:
\* residues 0 and 2 are connected, residue 1 is connected to neither.
C13_Witness ==
  /\ Done("LoadDenseContactMap")
  /\ atoms_file.groups = <<0, 1, 1, 2>>
  /\ ret.size = 3
  /\ IsSet(0, 2) /\ IsSet(2, 0)
  /\ ~IsSet(0, 1) /\ ~IsSet(1, 2)

\* ------------------------------------------------------------------------
\* C14: round trip of the Structure Store.  For every non-empty structure
\* whose last group boundary equals its atom count, a reader run on the file
\* a writer produced from it returns the same residue count, the same group
\* boundaries and the same atom coordinates, element for element.
\* ------------------------------------------------------------------------
DoneLoad ==
  \/ Done("LoadAtomsFile_read")
  \/ Done("LoadAtomsFile_size_t")
  \/ Done("load_atoms_file")

NonEmptyStructure(s) ==
  /\ Len(s.groups) >= 2
  /\ Len(s.positions) >= 1
  /\ s.groups[Len(s.groups)] = Len(s.positions)

C14_RoundTrip ==
  DoneLoad =>
    \A s \in Structures :
      (/\ NonEmptyStructure(s)
       /\ disk = SaveAtomsFile_library(Flatten(s.positions), s.groups)
       /\ memory.size_t_high = 0)
      => /\ ret.error = "none"
         /\ ret.structure.chain_length = Len(s.groups) - 1
         /\ ret.structure.group_indexes = s.groups
         /\ \A e \in 1..Len(ret.structure.group_indexes_high) :
              ret.structure.group_indexes_high[e] = 0
         /\ ret.structure.atoms_positions = Flatten(s.positions)

\* ------------------------------------------------------------------------
\* C15: a writer leaves a file that holds, in this order, the boundary count
\* as one 4-byte value, the count boundaries as 4 bytes each and
\* 3 * atom_count 4-byte floats, atom_count being the last boundary; the
\* file is 4 + 4 * count + 12 * boundaries[count - 1] bytes long.
\* ------------------------------------------------------------------------
DoneSave ==
  \/ Done("save_atoms_file")
  \/ Done("SaveAtomsFile_library")
  \/ Done("SaveAtomsFile_text")

C15_FileLayout ==
  DoneSave =>
    LET count == Len(atoms_file.groups)
        atom_count == atoms_file.groups[count]
    IN /\ disk.kind = "binary"
       /\ disk.words = <<count>>
                       \o atoms_file.groups
                       \o SubSeq(Flatten(atoms_file.positions),
                                 1, 3 * atom_count)
       /\ disk.bytes = 4 + 4 * count + 12 * atom_count

\* ------------------------------------------------------------------------
\* C16: when the file is too short for the count boundaries it declares
\* plus 3 * atom_count floats, the C++ readers fail with CorruptFormat and
\* return no structure; they never return a value that was not read from
\* the file.
\* ------------------------------------------------------------------------
\* The file holds fewer words than its header and trailing boundary declare.
TooShort(words) ==
  \/ Len(words) = 0
  \/ Len(words) < 1 + words[1]
  \/ /\ words[1] >= 1
     /\ Len(words) < 1 + words[1] + 3 * words[1 + words[1]]

C16_CorruptFormat ==
  ((Done("LoadAtomsFile_read") \/ Done("LoadAtomsFile_size_t"))
   /\ disk.kind = "binary"
   /\ TooShort(disk.words))
  => /\ ret.error = "CorruptFormat"
     /\ ret.structure = NoStructure
     /\ ~ret.uninitialised

\* ------------------------------------------------------------------------
\* C17: when the structure file is missing, LoadAlignedContactMap fails with
\* an error its caller receives: it processes no alignment column, returns
\* no contact map and never uses the absent sparse target map.
\* ------------------------------------------------------------------------
C17_MissingFile ==
  (Done("LoadAlignedContactMap") /\ ~exists(disk))
  => /\ ret.error \notin {"none", "SIGSEGV"}
     /\ ret.cols = 0
     /\ ret.returned = "none"
     /\ ~ret.null_dereferenced


\* ------------------------------------------------------------------------
\* C18: pairwise_sqeuclidean returns, for an n x m input X, an n x n matrix D
\* with D[i][i] = 0, D[i][j] = D[j][i] and D[i][j] the sum over k of
\* (X[i][k] - X[j][k])^2, without a square root; n = 0 and n = 1 included.
\* ------------------------------------------------------------------------
DonePairwise ==
  \/ Done("pairwise_sqeuclidean")
  \/ Done("pairwise_sqeuclidean_sequential")

RECURSIVE SumOfSquares(_, _, _)
SumOfSquares(x, y, k) ==
  IF k > Len(x) THEN 0
  ELSE (x[k] - y[k]) * (x[k] - y[k]) + SumOfSquares(x, y, k + 1)

C18_PairwiseSqeuclidean ==
  DonePairwise =>
    LET n == Len(pairwise.X)
        D == pairwise.D
    IN /\ DOMAIN D = Cells(n)
       /\ \A i \in Indices(n) : D[<<i, i>>] = 0
       /\ \A i, j \in Indices(n) : D[<<i, j>>] = D[<<j, i>>]
       /\ \A i, j \in Indices(n) :
            D[<<i, j>>] = SumOfSquares(pairwise.X[i + 1], pairwise.X[j + 1], 1)

\* Three points, two threads, and distances 9 and 18 in the result.
C18_Witness ==
  /\ Done("pairwise_sqeuclidean")
  /\ Len(pairwise.X) = 3
  /\ Len(pairwise.threads) = 2
  /\ pairwise.D[<<0, 1>>] = 9
  /\ pairwise.D[<<2, 0>>] = 18

\* ------------------------------------------------------------------------
\* C19: in the row-parallel loop of pairwise_sqeuclidean the worker of row i
\* writes only cells of row i of D, under every schedule, and takes no lock.
\* ------------------------------------------------------------------------
InPrange == op = "pairwise_sqeuclidean" /\ pc \in {"prange", "done"}

C19_OwnRowOnly ==
  InPrange =>
    /\ \A w \in pairwise.writes : w[2][1] = w[1]
    /\ pairwise.locks = 0

\* C19 as amended: the worker of row i writes only the cells D[i][j] and
\* D[j][i] with i < j < n, under every schedule, and takes no lock.
C19_OwnRowAndColumn ==
  InPrange =>
    /\ \A w \in pairwise.writes :
         \E j \in w[1] + 1..pairwise.n - 1 :
           w[2] = <<w[1], j>> \/ w[2] = <<j, w[1]>>
    /\ pairwise.locks = 0

\* Two threads: the worker of row 1 has written its mirror cell while the
\* worker of row 0 is still between its two stores.
C19_Witness ==
  /\ op = "pairwise_sqeuclidean"
  /\ pc = "prange"
  /\ Len(pairwise.threads) = 2
  /\ pairwise.threads[1].step = "store_mirror"
  /\ \E v, w \in pairwise.writes : v[1] = 0 /\ w[1] = 1 /\ w[2] = <<2, 1>>

\* ------------------------------------------------------------------------
\* C20: for n >= 2 the triangular index
\* bits_size - (n - a) * (n - a - 1) / 2 + (b - a - 1), bits_size = n (n - 1) / 2,
\* maps the pairs a < b < n one-to-one onto 0 .. bits_size - 1 in row-major
\* order (index 0 for (0, 1), the next pair has the next index), and its
\* integer divisions are exact.
\* ------------------------------------------------------------------------
TrianglePairs(n) == {ab \in Indices(n) \X Indices(n) : ab[1] < ab[2]}

\* The pair after (a, b) in row-major order of the upper triangle.
RowMajorNext(n, ab) ==
  IF ab[2] + 1 < n THEN <<ab[1], ab[2] + 1>> ELSE <<ab[1] + 1, ab[1] + 2>>

C20_TriangularIndex ==
  (Done("GenerateContactMap") /\ Len(atoms_file.groups) - 1 >= 2) =>
    LET n == Len(atoms_file.groups) - 1
        idx(ab) == bit_index(n, ab[1], ab[2])
        calls == mapper.set_calls
    IN /\ (n * (n - 1)) % 2 = 0
       /\ \A a \in Indices(n) : ((n - a) * ((n - a) - 1)) % 2 = 0
       /\ {idx(ab) : ab \in TrianglePairs(n)} = 0..bits_size(n) - 1
       /\ \A ab, cd \in TrianglePairs(n) : idx(ab) = idx(cd) => ab = cd
       /\ idx(<<0, 1>>) = 0
       /\ \A ab \in TrianglePairs(n) :
            RowMajorNext(n, ab) \in TrianglePairs(n)
            => idx(RowMajorNext(n, ab)) = idx(ab) + 1
       /\ \A k \in 1..Len(calls) : calls[k][3] \in 0..bits_size(n) - 1
       /\ \A k \in 2..Len(calls) : calls[k - 1][3] < calls[k][3]

\* Four residues at one point: every pair is connected and every bit set.
C20_Witness ==
  /\ Done("GenerateContactMap")
  /\ Len(atoms_file.groups) - 1 = 4
  /\ Len(mapper.set_calls) = 6
  /\ mapper.packed_file.bits = 0..5


\* ------------------------------------------------------------------------
\* C21: the packed file GenerateContactMap writes for n residues has
\* ceil(n (n - 1) / 2 / 8) bytes; for a < b < n bit idx(a, b) is 1 iff
\* residues a and b have an atom pair at squared distance <= 36; the padding
\* bits of the last byte are 0.
\* ------------------------------------------------------------------------
TriangularIndex(n, a, b) ==
  (n * (n - 1)) \div 2 - ((n - a) * (n - a - 1)) \div 2 + (b - a - 1)

C21_PackedFile ==
  Done("GenerateContactMap") =>
    LET n == Len(atoms_file.groups) - 1
        bits == (n * (n - 1)) \div 2
        file == mapper.packed_file
    IN /\ file.bytes_size = (bits + 7) \div 8
       /\ \A ab \in TrianglePairs(n) :
            TriangularIndex(n, ab[1], ab[2]) \in file.bits
            <=> InContact(atoms_file, ab[1], ab[2], 6)
       /\ \A b \in file.bits : b < bits

\* Three residues, the first of two atoms and the second of none: one bit of
\* the three is set and five padding bits follow.
C21_Witness ==
  /\ Done("GenerateContactMap")
  /\ atoms_file.groups = <<0, 2, 2, 3>>
  /\ atoms_file.positions[1] # atoms_file.positions[2]
  /\ mapper.packed_file = [bytes_size |-> 1, bits |-> {1}]

\* ------------------------------------------------------------------------
\* C22: repeated GenerateContactMap calls on one ContactMapper share no
\* state: what a call writes depends on its positions and group boundaries
\* only, and no bit an earlier call set appears in a later call's file.
\* ------------------------------------------------------------------------
C22_NoSharedState ==
  Done("GenerateContactMap") =>
    LET fresh == GenerateContactMap(NewMapper, Flatten(atoms_file.positions),
                                    atoms_file.groups)
    IN /\ mapper.packed_file = fresh.packed_file
       /\ mapper.packed_file.bits
            = {mapper.set_calls[k][3] : k \in 1..Len(mapper.set_calls)}

\* A call on three residues by a mapper that an earlier call on eighteen
\* residues left with a BitSet of 20 bytes and bits set beyond the first byte.
C22_Witness ==
  /\ Done("GenerateContactMap")
  /\ Len(atoms_file.groups) - 1 = 3
  /\ mapper.size = 20
  /\ \E b \in mapper.data : b >= 8
  /\ mapper.packed_file.bits # {}


\* ------------------------------------------------------------------------
\* C30: save_atoms_file releases the buffers it allocates: when it returns,
\* the positions buffer and the groups buffer it got from malloc have both
\* been freed, so no buffer is allocated and not yet released.
\* ------------------------------------------------------------------------
C30_BuffersReleased ==
  Done("save_atoms_file") => heap.malloc - heap.free = 0


\* ------------------------------------------------------------------------
\* C23: seq2onehot(seq) returns a len(seq) x 26 matrix whose row i has its
\* only 1 at the position of seq[i] in "-DGULNTKHYWCPVSOIEFXQABZRM" and 0
\* elsewhere; if a character of seq is not in the vocabulary it raises
\* ValueError and returns no matrix.
\* ------------------------------------------------------------------------
InVocabulary(c) == \E j \in 1..Len(chars) : chars[j] = c

C23_OneHot ==
  Done("seq2onehot") =>
    IF \A i \in 1..Len(seq) : InVocabulary(seq[i])
    THEN /\ ret.error = "none"
         /\ ret.returned = "onehot"
         /\ Len(ret.onehot) = Len(seq)
         /\ \A i \in 1..Len(seq) :
              /\ Len(ret.onehot[i]) = 26
              /\ \A j \in 1..26 :
                   ret.onehot[i][j] = (IF chars[j] = seq[i] THEN 1 ELSE 0)
              /\ Cardinality({j \in 1..26 : ret.onehot[i][j] = 1}) = 1
    ELSE /\ ret.error = "ValueError"
         /\ ret.returned = "none"
         /\ ret.onehot = <<>>

\* "D-M": the 1s of the three rows are in columns 1, 0 and 25.
C23_Witness ==
  /\ Done("seq2onehot")
  /\ seq = <<68, 45, 77>>
  /\ ret.onehot[1][2] = 1
  /\ ret.onehot[2][1] = 1
  /\ ret.onehot[3][26] = 1


\* ------------------------------------------------------------------------
\* C24: counter invariant of the remapping pass.  For equal-length alignment
\* strings and every k in 0..L, after columns 0..k-1 query_index is the
\* number of non-gap characters of query_alignment[0..k), target_index the
\* number of non-gap characters of target_alignment[0..k), and the
\* target-to-query map holds exactly target_index entries.
\* ------------------------------------------------------------------------
DoneRemapPass ==
  \/ Done("align_contact_map")
  \/ Done("LoadAlignedContactMap")

C24_CounterInvariant ==
  (DoneRemapPass /\ Len(query_alignment) = Len(target_alignment)) =>
    \A k \in 0..Len(query_alignment) :
      /\ ret.steps[k + 1].query_index
           = NonGapCount(SubSeq(query_alignment, 1, k))
      /\ ret.steps[k + 1].target_index
           = NonGapCount(SubSeq(target_alignment, 1, k))
      /\ ret.steps[k + 1].entries = ret.steps[k + 1].target_index

\* The part of C24 every variant keeps: query_index counts the non-gap query
\* characters, target_index the columns that are not insertions.
C24_Counters ==
  (DoneRemapPass /\ Len(query_alignment) = Len(target_alignment)) =>
    \A k \in 0..Len(query_alignment) :
      /\ ret.steps[k + 1].query_index
           = NonGapCount(SubSeq(query_alignment, 1, k))
      /\ ret.steps[k + 1].target_index
           = Cardinality({c \in 1..k : ~IsInsertion(c)})


\* ------------------------------------------------------------------------
\* C25: setting a bit manipulates exactly one bit.  After set_bit(i, v) on a
\* BitSet of N bits with i < N, get_bit(i) = v and get_bit(k) is what it was
\* before the call for every other k in [0, N); setting a bit that is
\* already set changes nothing.
\* ------------------------------------------------------------------------
C25_OneBit ==
  Done("set_bit") =>
    LET call == ret.bit_call
    IN /\ get_bit(bitset.data, call.i) = call.value
       /\ \A k \in 0..bitset.N - 1 :
            k # call.i => get_bit(bitset.data, k) = get_bit(call.before, k)
       /\ (call.value /\ get_bit(call.before, call.i))
            => bitset.data = call.before

C25_Witness ==
  /\ Done("set_bit")
  /\ bitset.header = "bit_set.hpp"
  /\ bitset.N = 9
  /\ ret.bit_call.i = 8
  /\ ~ret.bit_call.value
  /\ get_bit(ret.bit_call.before, 8)
  /\ get_bit(bitset.data, 0)
  /\ ~get_bit(bitset.data, 7)


\* ------------------------------------------------------------------------
\* C26: in the parallel pairwise_sqeuclidean every cell of D is written by at
\* most one row worker (cells (i, j) and (j, i) with i < j only by the worker
\* of row i), no worker reads a cell another worker writes, and every
\* interleaving of the workers ends with the matrix of the sequential loop.
\* ------------------------------------------------------------------------
LowerIndex(cell) == IF cell[1] < cell[2] THEN cell[1] ELSE cell[2]

C26_DisjointWritesSameResult ==
  InPrange =>
    /\ \A v, w \in pairwise.writes : v[2] = w[2] => v[1] = w[1]
    /\ \A w \in pairwise.writes :
         w[2][1] # w[2][2] /\ w[1] = LowerIndex(w[2])
    /\ \A r \in pairwise.reads : \A w \in pairwise.writes :
         r[2] = w[2] => r[1] = w[1]
    /\ pc = "done" =>
         /\ pairwise.D = pairwise_sqeuclidean_sequential(pairwise.X).D
         /\ {w[2] : w \in pairwise.writes}
              = {c \in Cells(pairwise.n) : c[1] # c[2]}

\* Two threads have finished three points: row 0 and row 1 each wrote their
\* cells of both triangles, and the result has two different distances.
C26_Witness ==
  /\ Done("pairwise_sqeuclidean")
  /\ Len(pairwise.threads) = 2
  /\ pairwise.n = 3
  /\ <<0, <<2, 0>>>> \in pairwise.writes
  /\ <<1, <<2, 1>>>> \in pairwise.writes
  /\ pairwise.D[<<0, 2>>] # pairwise.D[<<1, 2>>]


\* ------------------------------------------------------------------------
\* C27: after the remapping pass the entries of the target-to-query map that
\* are not -1 are strictly increasing in the target index and each is below
\* the final query_index; a translated pair (qi, qj) of a target pair (i, j)
\* with i < j has qi < qj, and a translated pair is never out of range.
\* ------------------------------------------------------------------------
MapIsMonotone(map, size) ==
  /\ \A a, b \in 1..Len(map) :
       (a < b /\ map[a] # -1 /\ map[b] # -1) => map[a] < map[b]
  /\ \A a \in 1..Len(map) : map[a] # -1 => map[a] \in Indices(size)

C27_MonotoneMap ==
  (DoneRemapPass /\ Len(query_alignment) = Len(target_alignment)) =>
    /\ MapIsMonotone(ret.target_to_query, ret.size)
    /\ \A n \in 1..Len(ret.translated) :
         LET pair == ret.translated[n]
         IN /\ pair.target[1] < pair.target[2] => pair.query[1] < pair.query[2]
            /\ pair.query[1] \in Indices(ret.size)
            /\ pair.query[2] \in Indices(ret.size)


\* ------------------------------------------------------------------------
\* C28: the remapper sets no spurious contact.  An off-diagonal cell
\* out[p][q] of the returned map is set only if {p, q} is the translation of
\* a pair of the sparse target map whose two endpoints are mapped, or p or q
\* is the query index of an insertion column and 1 <= |p - q| <=
\* generated_contacts; with generated_contacts = 0 and an empty target map
\* the result is the identity matrix.  Checked for align_contact_map,
\* load_aligned_contact_map and LoadAlignedContactMap of library.cpp.
\* ------------------------------------------------------------------------

\* The 1-based column that consumes target residue i: the (i + 1)-th column
\* that is not an insertion.
TargetColumn(i) ==
  CHOOSE k \in 1..Len(query_alignment) :
    /\ ~IsInsertion(k)
    /\ Cardinality({c \in 1..k - 1 : ~IsInsertion(c)}) = i

Mapped(i) ==
  /\ i \in Indices(TargetResidues)
  /\ query_alignment[TargetColumn(i)] # GAP

IsTranslation(p, q) ==
  \E k \in 1..Len(ret.sparse) :
    LET i == ret.sparse[k][1]
        j == ret.sparse[k][2]
    IN /\ Mapped(i)
       /\ Mapped(j)
       /\ {QueryIndexAt(TargetColumn(i)), QueryIndexAt(TargetColumn(j))} = {p, q}

Distance1D(p, q) == IF p < q THEN q - p ELSE p - q

IsGenerated(p, q) ==
  /\ Distance1D(p, q) \in 1..generated_contacts
  /\ \E k \in 1..Len(query_alignment) :
       IsInsertion(k) /\ QueryIndexAt(k) \in {p, q}

C28_NoSpuriousContact ==
  ((\/ Done("align_contact_map")
    \/ Done("load_aligned_contact_map")
    \/ Done("LoadAlignedContactMap_library"))
   /\ Len(query_alignment) = Len(target_alignment)
   /\ ret.error = "none")
  => /\ \A p, q \in Indices(ret.size) :
          (p # q /\ IsSet(p, q)) => (IsTranslation(p, q) \/ IsGenerated(p, q))
     /\ (generated_contacts = 0 /\ ret.sparse = <<>>)
          => ret.cells = {<<i, i>> : i \in Indices(ret.size)}


\* ------------------------------------------------------------------------
\* C29: the remapper never reads the target-to-query map outside its bounds:
\* a pair of the sparse target map with an endpoint that is negative or >=
\* the number of target residues the alignment consumed is skipped and sets
\* no cell, for every sparse target map.  Checked for align_contact_map and
\* the LoadAlignedContactMap of load_contact_maps.cpp and of library.cpp.
\* ------------------------------------------------------------------------
C29_ReadsInBounds ==
  ((\/ Done("align_contact_map")
    \/ Done("LoadAlignedContactMap")
    \/ Done("LoadAlignedContactMap_library"))
   /\ Len(query_alignment) = Len(target_alignment))
  => /\ \A n \in 1..Len(ret.map_reads) :
          ret.map_reads[n] \in Indices(TargetResidues)
     /\ \A n \in 1..Len(ret.translated) :
          /\ ret.translated[n].target[1] \in Indices(TargetResidues)
          /\ ret.translated[n].target[2] \in Indices(TargetResidues)

====
